---- MODULE Spec2Model ----
(***************************************************************************)
(* QueryMancer: the text-normalization and term-derivation engine          *)
(* (querymancer/utils.py) and the mapping assembler                        *)
(* (querymancer/mapping_generator.py).                                     *)
(*                                                                         *)
(* Python str values are TLA+ strings; a character is a string of length   *)
(* one.  Python lists are sequences.  list(set(xs)) enumerates the set in  *)
(* an order fixed by the interpreter's string hashing, which is seeded per *)
(* process: the order is a function of the insertion history and of the    *)
(* process's hash seed.                                                    *)
(***************************************************************************)
EXTENDS Integers, Sequences, FiniteSets, TLC

----------------------------------------------------------------------------
(* Characters and the str methods the code uses                            *)

Ch(s, i) == SubSeq(s, i, i)

LowerLetters == "abcdefghijklmnopqrstuvwxyz"
UpperLetters == "ABCDEFGHIJKLMNOPQRSTUVWXYZ"
DigitChars == "0123456789"

LowerSet == {Ch(LowerLetters, i) : i \in 1..Len(LowerLetters)}
UpperSet == {Ch(UpperLetters, i) : i \in 1..Len(UpperLetters)}
DigitSet == {Ch(DigitChars, i) : i \in 1..Len(DigitChars)}
\* \s of the patterns, and the characters str.split() and str.strip() cut at
SpaceSet == {" ", "\t"}

ToLowerMap == [c \in UpperSet |->
                 Ch(LowerLetters, CHOOSE i \in 1..Len(UpperLetters) : Ch(UpperLetters, i) = c)]
ToUpperMap == [c \in LowerSet |->
                 Ch(UpperLetters, CHOOSE i \in 1..Len(LowerLetters) : Ch(LowerLetters, i) = c)]

LowerCh(c) == IF c \in UpperSet THEN ToLowerMap[c] ELSE c
UpperCh(c) == IF c \in LowerSet THEN ToUpperMap[c] ELSE c

\* the strings (or the lists) of a list, concatenated in order; the list is
\* halved so that the evaluation nests only as deep as the logarithm of its length
RECURSIVE ConcatStrRange(_, _, _)
ConcatStrRange(parts, lo, hi) ==
    IF lo > hi THEN ""
    ELSE IF lo = hi THEN parts[lo]
    ELSE ConcatStrRange(parts, lo, (lo + hi) \div 2)
         \o ConcatStrRange(parts, ((lo + hi) \div 2) + 1, hi)
ConcatStr(parts) == ConcatStrRange(parts, 1, Len(parts))

RECURSIVE ConcatSeqRange(_, _, _)
ConcatSeqRange(parts, lo, hi) ==
    IF lo > hi THEN <<>>
    ELSE IF lo = hi THEN parts[lo]
    ELSE ConcatSeqRange(parts, lo, (lo + hi) \div 2)
         \o ConcatSeqRange(parts, ((lo + hi) \div 2) + 1, hi)
ConcatSeq(parts) == ConcatSeqRange(parts, 1, Len(parts))

\* the elements of a list at the positions of a set, in order
AtPositions(xs, positions) ==
    LET nth(k) == CHOOSE i \in positions : Cardinality({j \in positions : j <= i}) = k
    IN  [k \in 1..Cardinality(positions) |-> xs[nth(k)]]

\* str.lower()
Lower(s) == ConcatStr([i \in 1..Len(s) |-> LowerCh(Ch(s, i))])

\* needle in hay
Contains(hay, needle) ==
    \E i \in 1..(Len(hay) - Len(needle) + 1) : SubSeq(hay, i, i + Len(needle) - 1) = needle

\* any(term in s for term in terms)
ContainsAny(s, terms) == \E k \in 1..Len(terms) : Contains(s, terms[k])

\* str.startswith / str.endswith
StartsWith(s, p) == Len(s) >= Len(p) /\ SubSeq(s, 1, Len(p)) = p
EndsWith(s, p) == Len(s) >= Len(p) /\ SubSeq(s, Len(s) - Len(p) + 1, Len(s)) = p

\* str.split(): the maximal runs of non-whitespace characters, in order
Split(s) ==
    LET starts == {i \in 1..Len(s) :
                     /\ Ch(s, i) \notin SpaceSet
                     /\ (i = 1 \/ Ch(s, i - 1) \in SpaceSet)}
        end(i) == CHOOSE j \in i..Len(s) :
                     /\ \A k \in i..j : Ch(s, k) \notin SpaceSet
                     /\ (j = Len(s) \/ Ch(s, j + 1) \in SpaceSet)
        word == [i \in starts |-> SubSeq(s, i, end(i))]
        nth(k) == CHOOSE i \in starts : Cardinality({j \in starts : j <= i}) = k
    IN  [k \in 1..Cardinality(starts) |-> word[nth(k)]]

\* ' '.join(words)
Join(words) ==
    ConcatStr([i \in 1..Len(words) |-> IF i = 1 THEN words[i] ELSE " " \o words[i]])

\* str.strip()
Strip(s) ==
    LET inked == {i \in 1..Len(s) : Ch(s, i) \notin SpaceSet}
    IN  IF inked = {} THEN ""
        ELSE SubSeq(s, CHOOSE i \in inked : \A j \in inked : i <= j,
                       CHOOSE i \in inked : \A j \in inked : j <= i)

\* str.capitalize(): the first character upper-cased, every other one lower-cased
Capitalize(w) == IF w = "" THEN "" ELSE UpperCh(Head(w)) \o Lower(Tail(w))

\* str.replace(old, new) for a one-character old
ReplaceCh(s, old, new) ==
    ConcatStr([i \in 1..Len(s) |-> IF Ch(s, i) = old THEN new ELSE Ch(s, i)])

\* x in xs, for a list
InList(x, xs) == \E k \in 1..Len(xs) : xs[k] = x

\* the elements of a list
Elems(xs) == {xs[k] : k \in 1..Len(xs)}

----------------------------------------------------------------------------
(* utils.py                                                                *)

\* re.sub(r'[^a-zA-Z0-9\s]', ' ', text)
SubSpecial(s) ==
    ConcatStr([i \in 1..Len(s) |->
                 IF Ch(s, i) \in LowerSet \cup UpperSet \cup DigitSet \cup SpaceSet
                 THEN Ch(s, i) ELSE " "])

\* normalize_text without the collapse of whitespace runs
normalize_text_NoCollapse(text) ==
    IF text = "" THEN "" ELSE Lower(SubSpecial(text))

normalize_text(text) ==
    IF text = "" THEN "" ELSE Join(Split(Lower(SubSpecial(text))))

\* re.sub(r'([a-z])([A-Z])', r'\1 \2', text).  Two matches never overlap (the
\* second character of one is upper case, the first of the next lower case),
\* so every lower-case letter followed by an upper-case one gets the space.
SubLowerUpper(s) ==
    ConcatStr([i \in 1..Len(s) |->
                 IF i < Len(s) /\ Ch(s, i) \in LowerSet /\ Ch(s, i + 1) \in UpperSet
                 THEN Ch(s, i) \o " " ELSE Ch(s, i)])

\* re.sub(r'([A-Z])([A-Z][a-z])', r'\1 \2', result).  Two matches never overlap
\* either: the third character of one is lower case.
SubUpperUpperLower(s) ==
    ConcatStr([i \in 1..Len(s) |->
                 IF /\ i + 1 < Len(s)
                    /\ Ch(s, i) \in UpperSet
                    /\ Ch(s, i + 1) \in UpperSet
                    /\ Ch(s, i + 2) \in LowerSet
                 THEN Ch(s, i) \o " " ELSE Ch(s, i)])

camel_case_to_words(camel_case) ==
    IF camel_case = "" THEN "" ELSE SubUpperUpperLower(SubLowerUpper(camel_case))

snake_case_to_words(snake_case) ==
    IF snake_case = "" THEN ""
    ELSE Strip(camel_case_to_words(ReplaceCh(snake_case, "_", " ")))

\* synonym_map, in its insertion order (the order dict.items() yields)
synonym_map == <<
    [key |-> "id",          values |-> <<"identifier", "key", "number">>],
    [key |-> "name",        values |-> <<"title", "label", "description">>],
    [key |-> "date",        values |-> <<"time", "timestamp", "created", "modified">>],
    [key |-> "user",        values |-> <<"person", "customer", "client", "employee">>],
    [key |-> "order",       values |-> <<"purchase", "transaction", "sale">>],
    [key |-> "product",     values |-> <<"item", "goods", "service">>],
    [key |-> "address",     values |-> <<"location", "place">>],
    [key |-> "phone",       values |-> <<"telephone", "mobile", "contact">>],
    [key |-> "email",       values |-> <<"mail", "contact">>],
    [key |-> "price",       values |-> <<"cost", "amount", "value">>],
    [key |-> "quantity",    values |-> <<"amount", "count", "number">>],
    [key |-> "status",      values |-> <<"state", "condition">>],
    [key |-> "type",        values |-> <<"category", "kind", "classification">>],
    [key |-> "code",        values |-> <<"identifier", "reference">>],
    [key |-> "description", values |-> <<"details", "notes", "comments">>],
    [key |-> "created",     values |-> <<"added", "inserted", "made">>],
    [key |-> "updated",     values |-> <<"modified", "changed", "edited">>],
    [key |-> "deleted",     values |-> <<"removed", "archived">>],
    [key |-> "active",      values |-> <<"enabled", "current", "valid">>],
    [key |-> "inactive",    values |-> <<"disabled", "archived", "old">> ] >>

\* the first occurrence of every element of a list, in order
Dedup(xs) ==
    AtPositions(xs, {i \in 1..Len(xs) : \A j \in 1..(i - 1) : xs[j] # xs[i]})

\* list(set(xs)): every element once, in the order the set enumerates them.
\* The order is a function of the insertion history and the hash seed of the
\* process; seed 0 is insertion order, another seed rotates it.
ListOfSet(xs, seed) ==
    LET d == Dedup(xs)
        n == Len(d)
        r == IF n = 0 THEN 0 ELSE seed % n
    IN  [i \in 1..n |-> d[((i - 1 + r) % n) + 1]]

\* the loop of lines 118-120 with the test `key in word_lower` alone
PartialMatches_KeyInWord(word_lower) ==
    ConcatSeq([k \in 1..Len(synonym_map) |->
                 IF Contains(word_lower, synonym_map[k].key)
                 THEN synonym_map[k].values ELSE <<>>])

\* the values the loop of lines 118-120 adds, in the order of the keys
PartialMatches(word_lower) ==
    ConcatSeq([k \in 1..Len(synonym_map) |->
                 IF Contains(word_lower, synonym_map[k].key)
                    \/ Contains(synonym_map[k].key, word_lower)
                 THEN synonym_map[k].values ELSE <<>>])

\* the list synonyms holds before line 123
DirectMatches(word_lower) ==
    LET ks == {k \in 1..Len(synonym_map) : synonym_map[k].key = word_lower}
    IN  IF ks = {} THEN <<>> ELSE synonym_map[CHOOSE k \in ks : TRUE].values

SynonymsRaw(word) ==
    <<word>> \o DirectMatches(Lower(word)) \o PartialMatches(Lower(word))

\* the hash seeds a process can have
MaxSeed == 2
Seeds == 0..MaxSeed

\* The table and column names of the tables the schemas are drawn from.
\* generate_synonyms and create_search_terms are applied to these names over
\* and over; their values on them are computed once and looked up, and
\* computed on every other argument.
PoolNames == {"Customers", "CustomerID", "CustomerName",
              "Products", "ProductID", "UnitPrice", "Status",
              "Orders", "OrderID", "customer_id", "OrderDate",
              "tbl_Customer_Orders", "Customer"}

\* the body of generate_synonyms, lines 110-123
SynonymsOf(word, seed) == ListOfSet(SynonymsRaw(word), seed)

SynonymsOfPoolNames ==
    [name \in PoolNames |-> [seed \in Seeds |-> SynonymsOf(name, seed)]]

generate_synonyms(word, seed) ==
    IF word \in PoolNames /\ seed \in Seeds THEN SynonymsOfPoolNames[word][seed]
    ELSE SynonymsOf(word, seed)

stop_words == {"a", "an", "and", "are", "as", "at", "be", "by", "for", "from",
               "has", "he", "in", "is", "it", "its", "of", "on", "that", "the",
               "to", "was", "will", "with", "tbl", "table", "db", "database"}

\* [word for word in words if len(word) > 2 and word not in stop_words]
FilterMeaningful(words) ==
    SelectSeq(words, LAMBDA word : Len(word) > 2 /\ word \notin stop_words)

extract_meaningful_words(text) ==
    IF text = "" THEN <<>> ELSE FilterMeaningful(Split(normalize_text(text)))

prefixes_to_remove == <<"tbl_", "tb_", "table_", "dbo.">>
suffixes_to_remove == <<"_id", "_key", "_ref", "_tbl", "_table">>

\* no prefix removed
RemovePrefix_Keep(name) == name

\* the for/break loop of lines 198-201
RemovePrefix(name) ==
    LET ks == {k \in 1..Len(prefixes_to_remove) : StartsWith(Lower(name), prefixes_to_remove[k])}
    IN  IF ks = {} THEN name
        ELSE LET k == CHOOSE j \in ks : \A i \in ks : j <= i
             IN  SubSeq(name, Len(prefixes_to_remove[k]) + 1, Len(name))

\* the loop of lines 205-208 run a second time on its own result
RemoveSuffix_Twice(name) ==
    LET once(n) ==
            LET ks == {k \in 1..Len(suffixes_to_remove) :
                          EndsWith(Lower(n), suffixes_to_remove[k])}
            IN  IF ks = {} THEN n
                ELSE SubSeq(n, 1, Len(n) - Len(suffixes_to_remove[CHOOSE j \in ks : TRUE]))
    IN  once(once(name))

\* the for/break loop of lines 205-208
RemoveSuffix(name) ==
    LET ks == {k \in 1..Len(suffixes_to_remove) : EndsWith(Lower(name), suffixes_to_remove[k])}
    IN  IF ks = {} THEN name
        ELSE LET k == CHOOSE j \in ks : \A i \in ks : j <= i
             IN  SubSeq(name, 1, Len(name) - Len(suffixes_to_remove[k]))

\* [word.capitalize() for word in words]
CapitalizeAll(words) == [i \in 1..Len(words) |-> Capitalize(words[i])]

\* the value of natural after line 214: prefix and suffix removed, then segmented
Segmented(technical_name) ==
    LET name == RemoveSuffix(RemovePrefix(technical_name))
    IN  IF Contains(name, "_") THEN snake_case_to_words(name)
        ELSE camel_case_to_words(name)

convert_technical_to_natural(technical_name) ==
    IF technical_name = "" THEN ""
    ELSE Join(CapitalizeAll(Split(Segmented(technical_name))))

\* the synonyms of every word, concatenated (lines 246-248)
SynonymsOfAll(words, seed) ==
    ConcatSeq([i \in 1..Len(words) |-> generate_synonyms(words[i], seed)])

\* [term for term in terms if term.strip()]
FilterNonBlank(terms) == SelectSeq(terms, LAMBDA term : Strip(term) # "")

\* the list without the original name (line 234 left out)
SearchTermsRaw_NoOriginal(technical_name, seed) ==
    LET natural == convert_technical_to_natural(technical_name)
        words == extract_meaningful_words(natural)
    IN  (IF natural # "" /\ natural # technical_name THEN <<natural>> ELSE <<>>)
        \o words
        \o SynonymsOfAll(words, seed)

\* the list search_terms holds before line 251
SearchTermsRaw(technical_name, seed) ==
    LET natural == convert_technical_to_natural(technical_name)
        words == extract_meaningful_words(natural)
    IN  <<technical_name>>
        \o (IF natural # "" /\ natural # technical_name THEN <<natural>> ELSE <<>>)
        \o words
        \o SynonymsOfAll(words, seed)

\* the list returned as built, line 251 left out
create_search_terms_NoSet(technical_name, seed) == SearchTermsRaw(technical_name, seed)

\* the body of create_search_terms, lines 231-253
SearchTermsOf(technical_name, seed) ==
    FilterNonBlank(ListOfSet(SearchTermsRaw(technical_name, seed), seed))

SearchTermsOfPoolNames ==
    [name \in PoolNames |-> [seed \in Seeds |-> SearchTermsOf(name, seed)]]

create_search_terms(technical_name, seed) ==
    IF technical_name \in PoolNames /\ seed \in Seeds
    THEN SearchTermsOfPoolNames[technical_name][seed]
    ELSE SearchTermsOf(technical_name, seed)

\* the bracketed hint of lines 275-289
TypeInfo(data_type) ==
    LET data_type_lower == Lower(data_type)
    IN  IF data_type = "" THEN ""
        ELSE IF Contains(data_type_lower, "int") \/ Contains(data_type_lower, "numeric")
             THEN " (number)"
        ELSE IF Contains(data_type_lower, "varchar") \/ Contains(data_type_lower, "text")
             THEN " (text)"
        ELSE IF Contains(data_type_lower, "date") \/ Contains(data_type_lower, "time")
             THEN " (date/time)"
        ELSE IF Contains(data_type_lower, "bit") \/ Contains(data_type_lower, "bool")
             THEN " (yes/no)"
        ELSE ""

format_field_description(table_name, column_name, data_type) ==
    LET table_natural == convert_technical_to_natural(table_name)
        column_natural == convert_technical_to_natural(column_name)
    IN  column_natural
        \o (IF table_natural # "" /\ Lower(table_natural) # Lower(column_natural)
            THEN " from " \o table_natural ELSE "")
        \o TypeInfo(data_type)

----------------------------------------------------------------------------
(* mapping_generator.py                                                    *)

\* Optional values: None, or the value
None == <<>>
Some(v) == <<v>>

\* the number of pieces a column name is put together from
MaxNameFrags == 2

\* the pieces column names are put together from, and the declared types
NameFragments == <<"Created", "Date", "price", "count", "is_", "Active", "mail", "name", "x",
                   "phone", "state", "notes">>
ColumnTypes == <<"int", "decimal(10,2)", "datetime", "bit", "varchar(100)", "nchar", "xml", "">>

RECURSIVE ComposeNames(_)
ComposeNames(n) ==
    IF n = 0 THEN {""}
    ELSE ComposeNames(n - 1)
         \cup {s \o NameFragments[k] : s \in ComposeNames(n - 1), k \in 1..Len(NameFragments)}

ColumnNameInputs == ComposeNames(MaxNameFrags)
ColumnWords == ColumnNameInputs \cup {ColumnTypes[t] : t \in 1..Len(ColumnTypes)}

\* The functions of a column are applied to these names and types over and
\* over; str.lower, convert_technical_to_natural and generate_synonyms are
\* computed once on them and looked up, and computed on every other argument.
LowerOfColumnWords == [s \in ColumnWords |-> Lower(s)]

LowerWord(s) == IF s \in ColumnWords THEN LowerOfColumnWords[s] ELSE Lower(s)

NaturalOfColumnNames == [name \in ColumnNameInputs |-> convert_technical_to_natural(name)]

NaturalName(name) ==
    IF name \in ColumnNameInputs THEN NaturalOfColumnNames[name]
    ELSE convert_technical_to_natural(name)

SynonymsOfColumnNames ==
    [name \in ColumnNameInputs |-> [seed \in Seeds |-> SynonymsOf(name, seed)]]

SynonymsOfName(name, seed) ==
    IF name \in ColumnNameInputs /\ seed \in Seeds THEN SynonymsOfColumnNames[name][seed]
    ELSE generate_synonyms(name, seed)

\* the tests on name and type with the quantity words tried before the money
\* words under a numeric type
CategoryByNameAndType_QuantityFirst(column) ==
    LET name_lower == LowerWord(column.name)
        type_lower == LowerWord(column.data_type)
    IN  IF ContainsAny(name_lower, <<"date", "time", "created", "modified", "updated">>)
           \/ ContainsAny(type_lower, <<"date", "time", "timestamp">>)
        THEN "datetime"
        ELSE IF ContainsAny(type_lower, <<"int", "decimal", "numeric", "float", "money">>)
             THEN IF ContainsAny(name_lower, <<"quantity", "count", "number">>)
                  THEN "quantity"
                  ELSE IF ContainsAny(name_lower, <<"price", "cost", "amount", "value", "total">>)
                       THEN "money"
                       ELSE "numeric"
        ELSE IF ContainsAny(type_lower, <<"bit", "bool">>)
                \/ ContainsAny(name_lower, <<"is_", "has_", "active", "enabled">>)
             THEN "boolean"
        ELSE IF ContainsAny(type_lower, <<"varchar", "text", "char">>)
             THEN IF ContainsAny(name_lower, <<"email", "mail">>) THEN "email"
                  ELSE IF ContainsAny(name_lower, <<"phone", "telephone", "mobile">>) THEN "phone"
                  ELSE IF ContainsAny(name_lower, <<"address", "street", "city", "state", "zip">>)
                       THEN "address"
                  ELSE IF ContainsAny(name_lower, <<"name", "title", "label">>) THEN "name"
                  ELSE IF ContainsAny(name_lower, <<"description", "notes", "comment">>)
                       THEN "description"
                  ELSE "text"
        ELSE "general"

\* the rules of lines 145-180, for a column that is no key
CategoryByNameAndType(column) ==
    LET name_lower == LowerWord(column.name)
        type_lower == LowerWord(column.data_type)
    IN  IF ContainsAny(name_lower, <<"date", "time", "created", "modified", "updated">>)
           \/ ContainsAny(type_lower, <<"date", "time", "timestamp">>)
        THEN "datetime"
        ELSE IF ContainsAny(type_lower, <<"int", "decimal", "numeric", "float", "money">>)
             THEN IF ContainsAny(name_lower, <<"price", "cost", "amount", "value", "total">>)
                  THEN "money"
                  ELSE IF ContainsAny(name_lower, <<"quantity", "count", "number">>)
                       THEN "quantity"
                       ELSE "numeric"
        ELSE IF ContainsAny(type_lower, <<"bit", "bool">>)
                \/ ContainsAny(name_lower, <<"is_", "has_", "active", "enabled">>)
             THEN "boolean"
        ELSE IF ContainsAny(type_lower, <<"varchar", "text", "char">>)
             THEN IF ContainsAny(name_lower, <<"email", "mail">>) THEN "email"
                  ELSE IF ContainsAny(name_lower, <<"phone", "telephone", "mobile">>) THEN "phone"
                  ELSE IF ContainsAny(name_lower, <<"address", "street", "city", "state", "zip">>)
                       THEN "address"
                  ELSE IF ContainsAny(name_lower, <<"name", "title", "label">>) THEN "name"
                  ELSE IF ContainsAny(name_lower, <<"description", "notes", "comment">>)
                       THEN "description"
                  ELSE "text"
        ELSE "general"

\* the key tests made after the date/time test instead of before it
determine_column_category_DateFirst(column) ==
    IF CategoryByNameAndType(column) = "datetime" THEN "datetime"
    ELSE IF column.is_primary_key THEN "identifier"
    ELSE IF column.is_foreign_key THEN "reference"
    ELSE CategoryByNameAndType(column)

determine_column_category(column) ==
    IF column.is_primary_key THEN "identifier"
    ELSE IF column.is_foreign_key THEN "reference"
    ELSE CategoryByNameAndType(column)

\* the type-specific block of lines 202-245
ExampleBlock(column, natural_name) ==
    LET name_lower == LowerWord(column.name)
    IN  IF column.is_primary_key
        THEN << "find by " \o natural_name,
                "get record with " \o natural_name,
                "lookup " \o natural_name >>
        ELSE IF Contains(name_lower, "date") \/ Contains(name_lower, "time")
        THEN << "when was " \o natural_name,
                "show " \o natural_name \o " after",
                "filter by " \o natural_name >>
        ELSE IF ContainsAny(name_lower, <<"price", "cost", "amount", "value", "total">>)
        THEN << "how much is " \o natural_name,
                "total " \o natural_name,
                "average " \o natural_name,
                natural_name \o " greater than",
                natural_name \o " less than" >>
        ELSE IF ContainsAny(name_lower, <<"quantity", "count", "number">>)
        THEN << "how many " \o natural_name,
                "count of " \o natural_name,
                "sum of " \o natural_name >>
        ELSE IF ContainsAny(name_lower, <<"name", "title">>)
        THEN << "find by " \o natural_name,
                "search " \o natural_name,
                natural_name \o " contains",
                natural_name \o " starts with" >>
        ELSE IF ContainsAny(name_lower, <<"status", "state", "type", "category">>)
        THEN << "where " \o natural_name \o " is",
                "filter by " \o natural_name,
                "group by " \o natural_name >>
        ELSE <<>>

\* xs[:n]
Take(xs, n) == SubSeq(xs, 1, IF Len(xs) < n THEN Len(xs) ELSE n)

\* the synonym phrases of lines 248-251
SynonymExamples(column, seed) ==
    LET first == Take(SynonymsOfName(column.name, seed), 3)
        kept == SelectSeq(first, LAMBDA synonym : synonym # column.name)
    IN  [i \in 1..Len(kept) |-> "show me " \o kept[i]]

\* the list before the cut of line 253
generate_column_examples_NoLimit(column, seed) ==
    << "show me " \o NaturalName(column.name),
       "what is the " \o NaturalName(column.name),
       "find " \o NaturalName(column.name) >>
    \o ExampleBlock(column, NaturalName(column.name))
    \o SynonymExamples(column, seed)

generate_column_examples(column, seed) ==
    LET natural_name == NaturalName(column.name)
    IN  Take(<< "show me " \o natural_name,
                "what is the " \o natural_name,
                "find " \o natural_name >>
             \o ExampleBlock(column, natural_name)
             \o SynonymExamples(column, seed), 10)

generate_column_mapping(table_info, column, seed) ==
    [ technical_name |-> column.name,
      natural_name   |-> convert_technical_to_natural(column.name),
      description    |-> format_field_description(table_info.name, column.name, column.data_type),
      data_type      |-> column.data_type,
      search_terms   |-> create_search_terms(column.name, seed),
      synonyms       |-> generate_synonyms(column.name, seed),
      category       |-> determine_column_category(column),
      examples       |-> generate_column_examples(column, seed),
      metadata       |-> [ max_length        |-> column.max_length,
                           is_nullable       |-> column.is_nullable,
                           default_value     |-> column.default_value,
                           is_primary_key    |-> column.is_primary_key,
                           is_foreign_key    |-> column.is_foreign_key,
                           referenced_table  |-> column.referenced_table,
                           referenced_column |-> column.referenced_column ] ]

\* the dict columns of lines 56-59: one entry per column name, a later column
\* of the same name replacing the earlier one
ColumnsDict(table_info, seed) ==
    LET cols == table_info.columns
        last(n) == CHOOSE i \in 1..Len(cols) :
                       /\ cols[i].name = n
                       /\ \A j \in (i + 1)..Len(cols) : cols[j].name # n
    IN  [n \in {cols[i].name : i \in 1..Len(cols)} |->
            generate_column_mapping(table_info, cols[last(n)], seed)]

\* f"{table_info.schema}.{table_info.name}"
TablePath(table_info) == table_info.schema \o "." \o table_info.name

generate_table_mapping(table_info, seed) ==
    LET natural_name == convert_technical_to_natural(table_info.name)
    IN  [ technical_name |-> TablePath(table_info),
          natural_name   |-> natural_name,
          description    |-> "Data from the " \o natural_name \o " table",
          search_terms   |-> create_search_terms(table_info.name, seed),
          synonyms       |-> generate_synonyms(table_info.name, seed),
          columns        |-> ColumnsDict(table_info, seed),
          primary_keys   |-> table_info.primary_keys,
          foreign_keys   |-> table_info.foreign_keys,
          row_count      |-> table_info.row_count,
          metadata       |-> [ schema           |-> table_info.schema,
                               table_name       |-> table_info.name,
                               column_count     |-> Len(table_info.columns),
                               has_primary_key  |-> Len(table_info.primary_keys) > 0,
                               has_foreign_keys |-> Len(table_info.foreign_keys) > 0 ] ]

\* One pass of an inner loop of generate_search_index: the lower-cased term,
\* the path, and whether line 328 guards the append.
\* the table pass with the term as it is, not lower-cased
TableEntries_NoLower(table_info, seed) ==
    LET terms == create_search_terms(table_info.name, seed)
    IN  [i \in 1..Len(terms) |->
            [term_lower |-> terms[i], path |-> TablePath(table_info), guarded |-> FALSE]]

TableEntries(table_info, seed) ==
    LET terms == create_search_terms(table_info.name, seed)
    IN  [i \in 1..Len(terms) |->
            [term_lower |-> Lower(terms[i]), path |-> TablePath(table_info), guarded |-> FALSE]]

ColumnEntries(table_info, column, seed) ==
    LET terms == create_search_terms(column.name, seed)
    IN  [i \in 1..Len(terms) |->
            [ term_lower |-> Lower(terms[i]),
              path |-> TablePath(table_info) \o "." \o column.name,
              guarded |-> TRUE ]]

\* the passes with the columns of a table ahead of the table itself
IndexEntries_ColumnsFirst(tables, seed) ==
    ConcatSeq([t \in 1..Len(tables) |->
                 ConcatSeq([c \in 1..Len(tables[t].columns) |->
                              ColumnEntries(tables[t], tables[t].columns[c], seed)])
                 \o TableEntries(tables[t], seed)])

\* the passes of the loops of lines 310-329, in the order they are made: for
\* every table its own terms (lines 313-317), then the terms of its columns in
\* the order of the columns (lines 320-329).  The key of a table in
\* schema_info is its schema.table path (schema_extractor.py line 374).
IndexEntries(schema_info, seed) ==
    ConcatSeq([t \in 1..Len(schema_info) |->
                 TableEntries(schema_info[t], seed)
                 \o ConcatSeq([c \in 1..Len(schema_info[t].columns) |->
                                 ColumnEntries(schema_info[t], schema_info[t].columns[c], seed)])])

\* Whether pass i appends its path.  An unguarded pass always does (line 317).
\* A guarded pass does unless the bucket holds the path (line 328), and the
\* bucket holds it exactly when an earlier pass had the same term and path.
Appends(entries, i) ==
    entries[i].guarded =>
        ~\E j \in 1..(i - 1) : /\ entries[j].term_lower = entries[i].term_lower
                               /\ entries[j].path = entries[i].path

\* the dict the passes leave: for every term the paths appended, in order
BucketsOf(entries) ==
    [term \in {entries[i].term_lower : i \in 1..Len(entries)} |->
        AtPositions([i \in 1..Len(entries) |-> entries[i].path],
                    {i \in 1..Len(entries) :
                       entries[i].term_lower = term /\ Appends(entries, i)})]

\* (the list of passes is bound once, as a value)
generate_search_index(schema_info, seed) ==
    CHOOSE search_index \in
        {BucketsOf(entries) : entries \in {IndexEntries(schema_info, seed)}} : TRUE

\* sum(len(table["columns"]) for table in tables.values())
RECURSIVE SumColumns(_, _)
SumColumns(tables, keys) ==
    IF keys = {} THEN 0
    ELSE LET k == CHOOSE x \in keys : TRUE
         IN  Cardinality(DOMAIN tables[k].columns) + SumColumns(tables, keys \ {k})

\* the dict returned for an empty schema_info (line 266)
EmptyMapping == <<>>

\* the dict tables of lines 269-273, keyed by the table path
TableMappings(schema_info, seed) ==
    [k \in {TablePath(schema_info[i]) : i \in 1..Len(schema_info)} |->
        generate_table_mapping(
            schema_info[CHOOSE i \in 1..Len(schema_info) : TablePath(schema_info[i]) = k],
            seed)]

\* the dict of lines 279-295
MappingOf(client_key, config, tables, search_index, clock) ==
    [ client_info  |-> [ client_key      |-> client_key,
                         client_name     |-> config.client_name,
                         database        |-> config.database,
                         generation_date |-> clock,
                         total_tables    |-> Cardinality(DOMAIN tables),
                         total_columns   |-> SumColumns(tables, DOMAIN tables) ],
      tables       |-> tables,
      search_index |-> search_index,
      metadata     |-> [ version |-> "1.0",
                         generator |-> "QueryMancer Mapping Generator",
                         schema_extraction_date |-> clock ] ]

\* generate_database_mapping without the test of line 264
generate_database_mapping_NoEmptyTest(client_key, config, schema_info, seed, clock) ==
    MappingOf(client_key, config, TableMappings(schema_info, seed),
              generate_search_index(schema_info, seed), clock)

\* (tables and search_index are bound once, as values)
generate_database_mapping(client_key, config, schema_info, seed, clock) ==
    IF schema_info = <<>> THEN EmptyMapping
    ELSE CHOOSE mapping_ \in
             {MappingOf(client_key, config, tables, search_index, clock) :
                 tables \in {TableMappings(schema_info, seed)},
                 search_index \in {generate_search_index(schema_info, seed)}} : TRUE

----------------------------------------------------------------------------
(* State                                                                   *)

VARIABLES
    hash_seed,    \* the string-hash seed of the running process
    text_in,      \* the identifier handed to a utils.py function
    text_none,    \* whether None is handed to it instead (text_in is "" then)
    text_op,      \* the utils.py function applied last ("" before any call)
    text_prev,    \* the result of the call before the last one
    text_out,     \* the result of the last call (a str, or a list of str)
    text_raised,  \* the exception the last call raised ("" when it returned)
    column,       \* the ColumnInfo handed to determine_column_category
    category,     \* its result ("" before the call)
    examples,     \* what generate_column_examples returned for it (<<>> before)
    client_key,   \* the client the MappingGenerator was made for
    schema_info,  \* the TableInfo descriptors, in the order of schema_info.items()
    runs,         \* the number of generate_database_mapping calls made
    mapping,      \* what the first call returned
    rebuilt,      \* what the second call, on the same descriptors, returned
    clock,        \* datetime.now()
    call_client,  \* the client generate_mapping_for_client was called for
    call_outcome, \* how that call ended: "returned" or "raised" ("" before it)
    call_result,  \* what it returned
    call_write_failed,  \* whether writing the output document failed during it
    batch_pc,     \* where generate_mappings_for_all_clients is
    output_dir,   \* its argument
    attempted,    \* the clients its loop has called generate_mapping_for_client for
    results,      \* what each of these calls returned
    write_failed, \* for each of these calls, whether writing the document failed
    all_mappings, \* its dict all_mappings
    report,       \* the counts of its last log line (line 424)
    extracted_table,      \* the table name handed to get_table_info
    column_rows,          \* the rows the columns query yields for it
    columns_fetched,      \* whether that query ran (it raises otherwise)
    foreign_key_rows,     \* the rows the foreign-key query yields for it
    foreign_keys_fetched, \* whether that query ran
    counted_rows,         \* what get_table_row_count returns for it
    extract_done,         \* whether get_table_info has been called
    extracted_info        \* what it returned

VARIABLES
    source_info,       \* the TableInfo object a caller holds and hands to generate_table_mapping
    heap,              \* the lists that object refers to, as they are now
    built_mapping,     \* the dict generate_table_mapping returned (None before the call)
    mapping_at_return, \* what that dict read when it was returned
    source_changes,    \* the number of changes the caller has made to the TableInfo
    sample             \* what create_sample_mapping returned to the caller (None before)

objectVars == <<source_info, heap, built_mapping, mapping_at_return, source_changes, sample>>

VARIABLES
    job_client,   \* the client key generate_mapping_for_client is called with
    job_pc,       \* where that call is
    connection,   \* self.connection of its SchemaExtractor: None or a connection
    connections,  \* every connection pyodbc.connect has opened: "open" or "closed"
    job_tables,   \* what get_tables returned
    job_queries,  \* for every table the loop has handled, what its queries did
    job_schema,   \* the dict schema_info of extract_full_schema, as (key, TableInfo) items
    job_error,    \* the exception extract_schema_for_client caught ("" when none)
    job_mapping,  \* the mapping the call made ({} when it made none)
    files,        \* the files the call has created
    job_result    \* how the call ended, and with what

clientVars == <<job_client, job_pc, connection, connections, job_tables, job_queries,
                job_schema, job_error, job_mapping, files, job_result>>

textVars == <<text_in, text_none, text_op, text_prev, text_out, text_raised>>
columnVars == <<column, category, examples>>
mappingVars == <<client_key, schema_info, runs, mapping, rebuilt, clock>>
callVars == <<call_client, call_outcome, call_result, call_write_failed>>
batchVars == <<batch_pc, output_dir, attempted, results, write_failed, all_mappings, report>>
extractorInputs == <<extracted_table, column_rows, columns_fetched, foreign_key_rows,
                     foreign_keys_fetched, counted_rows>>
extractorVars == <<extractorInputs, extract_done, extracted_info>>
vars == <<hash_seed, textVars, columnVars, mappingVars, callVars, batchVars, extractorVars,
         objectVars,
         clientVars>>

\* Bounds of the inputs
MaxFrags == 2
MaxTables == 2

\* the pieces identifiers are put together from
Fragments == <<"tbl_", "dbo.", "_id", "Customer", "ID", "Name", "user", "XML",
               "date", " ", "\t", "-", "_", "a", "B", "7">>

\* the identifiers of demo.py and of the sample mapping
Fixtures == {"tbl_Customer_Orders", "CustomerID", "OrderDate", "ProductName", "UnitPrice",
             "IsActive", "CreatedDateTime", "user_profile_settings", "Customers"}

RECURSIVE Compose(_)
Compose(n) ==
    IF n = 0 THEN {""}
    ELSE Compose(n - 1)
         \cup {s \o Fragments[k] : s \in Compose(n - 1), k \in 1..Len(Fragments)}

\* identifiers of mixed form: camelCase, an acronym run, both with underscores
MixedForms == {"customerID", "XMLParser", "user_profileID"}

TextInputs == Fixtures \cup MixedForms \cup Compose(MaxFrags)

\* config_manager.databases (config.py lines 43-62), the fields the generator reads
databases ==
    [ client_a |-> [client_name |-> "Client A", database |-> "ClientA_DB"],
      client_b |-> [client_name |-> "Client B", database |-> "ClientB_DB"] ]

\* ColumnInfo(...), the key fields at their defaults (schema_extractor.py lines 23-34)
ColumnInfo(name, data_type, max_length, is_nullable, is_primary_key) ==
    [ name |-> name, data_type |-> data_type, max_length |-> max_length,
      is_nullable |-> is_nullable, default_value |-> None,
      is_primary_key |-> is_primary_key, is_foreign_key |-> FALSE,
      referenced_table |-> None, referenced_column |-> None ]

\* the back-fill of lines 283-289 for one foreign key of the column
ForeignKey(col, referenced_table, referenced_column) ==
    [col EXCEPT !.is_foreign_key = TRUE,
                !.referenced_table = Some(referenced_table),
                !.referenced_column = Some(referenced_column)]

\* TableInfo as get_table_info builds it (lines 291-304) from columns whose
\* foreign keys are back-filled
TableInfo(schema, name, columns, row_count) ==
    LET pk == SelectSeq(columns, LAMBDA c : c.is_primary_key)
        fk == SelectSeq(columns, LAMBDA c : c.is_foreign_key)
    IN  [ name |-> name, schema |-> schema, columns |-> columns,
          primary_keys |-> [i \in 1..Len(pk) |-> pk[i].name],
          foreign_keys |-> [i \in 1..Len(fk) |->
                              [ column |-> fk[i].name,
                                referenced_table |-> fk[i].referenced_table[1],
                                referenced_column |-> fk[i].referenced_column[1] ]],
          row_count |-> row_count ]

\* the tables a schema is drawn from
TablePool == <<
    TableInfo("dbo", "Customers",
              << ColumnInfo("CustomerID", "int", None, FALSE, TRUE),
                 ColumnInfo("CustomerName", "varchar(100)", Some(100), FALSE, FALSE) >>,
              Some(1000)),
    TableInfo("dbo", "Products",
              << ColumnInfo("ProductID", "int", None, FALSE, TRUE),
                 ColumnInfo("UnitPrice", "decimal", None, TRUE, FALSE),
                 ColumnInfo("Status", "varchar", Some(20), TRUE, FALSE) >>,
              Some(0)),
    TableInfo("dbo", "Orders",
              << ColumnInfo("OrderID", "int", None, FALSE, TRUE),
                 ForeignKey(ColumnInfo("customer_id", "int", None, FALSE, FALSE),
                            "dbo.Customers", "CustomerID"),
                 ColumnInfo("OrderDate", "datetime", None, TRUE, FALSE) >>,
              None),
    TableInfo("sales", "tbl_Customer_Orders",
              << ColumnInfo("Customer", "nvarchar(50)", Some(50), TRUE, FALSE),
                 ColumnInfo("Orders", "int", None, TRUE, FALSE),
                 ColumnInfo("Customer", "int", None, TRUE, FALSE) >>,
              Some(7)) >>

\* the lists of at most n tables of the pool, no table twice (schema_info is a
\* dict keyed by the table path)
RECURSIVE SchemasUpTo(_)
SchemasUpTo(n) ==
    IF n = 0 THEN {<<>>}
    ELSE SchemasUpTo(n - 1)
         \cup {Append(ts, TablePool[k]) :
                 ts \in {x \in SchemasUpTo(n - 1) : Len(x) = n - 1},
                 k \in 1..Len(TablePool)}

SchemaInputs ==
    {ts \in SchemasUpTo(MaxTables) :
        \A i, j \in 1..Len(ts) : i # j => TablePath(ts[i]) # TablePath(ts[j])}

ColumnInputs ==
    { IF fk THEN ForeignKey(ColumnInfo(n, ColumnTypes[t], None, TRUE, pk), "dbo.Customers", "CustomerID")
      ELSE ColumnInfo(n, ColumnTypes[t], None, TRUE, pk) :
        n \in ColumnNameInputs, t \in 1..Len(ColumnTypes),
        pk \in BOOLEAN, fk \in BOOLEAN }

\* the values of the variables a specification does not use
NoText ==
    /\ text_in = ""
    /\ text_none = FALSE
    /\ text_op = ""
    /\ text_prev = ""
    /\ text_out = ""
    /\ text_raised = ""
NoColumn == column = ColumnInfo("", "", None, TRUE, FALSE) /\ category = "" /\ examples = <<>>
NoMapping ==
    /\ client_key = "client_a"
    /\ schema_info = <<>>
    /\ runs = 0
    /\ mapping = None
    /\ rebuilt = None
    /\ clock = 0

NoBatch ==
    /\ call_client = ""
    /\ call_outcome = ""
    /\ call_result = None
    /\ call_write_failed = FALSE
    /\ batch_pc = "start"
    /\ output_dir = None
    /\ attempted = <<>>
    /\ results = <<>>
    /\ write_failed = <<>>
    /\ all_mappings = <<>>
    /\ report = None

NoExtract ==
    /\ extracted_table = ""
    /\ column_rows = <<>>
    /\ columns_fetched = FALSE
    /\ foreign_key_rows = <<>>
    /\ foreign_keys_fetched = FALSE
    /\ counted_rows = None
    /\ extract_done = FALSE
    /\ extracted_info = None

NoClient ==
    /\ job_client = ""
    /\ job_pc = "idle"
    /\ connection = None
    /\ connections = <<>>
    /\ job_tables = <<>>
    /\ job_queries = <<>>
    /\ job_schema = <<>>
    /\ job_error = ""
    /\ job_mapping = <<>>
    /\ files = {}
    /\ job_result = None

NoObject ==
    /\ source_info = None
    /\ heap = <<>>
    /\ built_mapping = None
    /\ mapping_at_return = None
    /\ source_changes = 0
    /\ sample = None

----------------------------------------------------------------------------
(* The utils.py functions, called on an identifier                         *)

\* the argument of the call: a str or None
TextArg == IF text_none THEN None ELSE Some(text_in)

\* `not text`: true of None and of the empty str
Falsy(arg) == arg = None \/ arg = Some("")

TextInit ==
    /\ hash_seed \in Seeds
    /\ NoExtract
    /\ NoClient
    /\ NoObject
    /\ \/ text_in \in TextInputs /\ text_none = FALSE
       \/ text_in = "" /\ text_none = TRUE
    /\ text_op = ""
    /\ text_prev = ""
    /\ text_out = ""
    /\ text_raised = ""
    /\ NoColumn
    /\ NoMapping
    /\ NoBatch

CallNormalize ==
    /\ text_op = ""
    /\ text_op' = "normalize_text"
    /\ text_prev' = text_out
    /\ text_out' = IF Falsy(TextArg) THEN "" ELSE normalize_text(text_in)
    /\ text_raised' = ""
    /\ UNCHANGED <<hash_seed, clientVars, objectVars, extractorVars, text_in, text_none, columnVars, mappingVars, callVars, batchVars>>

\* normalize_text applied to its own result
CallNormalizeAgain ==
    /\ text_op = "normalize_text"
    /\ text_op' = "normalize_text twice"
    /\ text_prev' = text_out
    /\ text_out' = normalize_text(text_out)
    /\ text_raised' = ""
    /\ UNCHANGED <<hash_seed, clientVars, objectVars, extractorVars, text_in, text_none, columnVars, mappingVars, callVars, batchVars>>

CallSnakeCase ==
    /\ text_op = ""
    /\ text_op' = "snake_case_to_words"
    /\ text_prev' = text_out
    /\ text_out' = IF Falsy(TextArg) THEN "" ELSE snake_case_to_words(text_in)
    /\ text_raised' = ""
    /\ UNCHANGED <<hash_seed, clientVars, objectVars, extractorVars, text_in, text_none, columnVars, mappingVars, callVars, batchVars>>

CallCamelCase ==
    /\ text_op = ""
    /\ text_op' = "camel_case_to_words"
    /\ text_prev' = text_out
    /\ text_out' = IF Falsy(TextArg) THEN "" ELSE camel_case_to_words(text_in)
    /\ text_raised' = ""
    /\ UNCHANGED <<hash_seed, clientVars, objectVars, extractorVars, text_in, text_none, columnVars, mappingVars, callVars, batchVars>>

CallConvert ==
    /\ text_op = ""
    /\ text_op' = "convert_technical_to_natural"
    /\ text_prev' = text_out
    /\ text_out' = IF Falsy(TextArg) THEN "" ELSE convert_technical_to_natural(text_in)
    /\ text_raised' = ""
    /\ UNCHANGED <<hash_seed, clientVars, objectVars, extractorVars, text_in, text_none, columnVars, mappingVars, callVars, batchVars>>

CallMeaningfulWords ==
    /\ text_op = ""
    /\ text_op' = "extract_meaningful_words"
    /\ text_prev' = text_out
    /\ text_out' = IF Falsy(TextArg) THEN <<>> ELSE extract_meaningful_words(text_in)
    /\ text_raised' = ""
    /\ UNCHANGED <<hash_seed, clientVars, objectVars, extractorVars, text_in, text_none, columnVars, mappingVars, callVars, batchVars>>

\* generate_synonyms has no test of its argument: word.lower() (line 110) is
\* its first use, and None has no method lower
CallSynonyms ==
    /\ text_op = ""
    /\ text_op' = "generate_synonyms"
    /\ text_prev' = text_out
    /\ IF text_none
       THEN text_raised' = "AttributeError" /\ text_out' = text_out
       ELSE text_raised' = "" /\ text_out' = generate_synonyms(text_in, hash_seed)
    /\ UNCHANGED <<hash_seed, clientVars, objectVars, extractorVars, text_in, text_none, columnVars, mappingVars, callVars, batchVars>>

\* create_search_terms has no test either: on None, line 234 appends None,
\* convert_technical_to_natural(None) is "" and adds nothing (lines 237-243),
\* and the filter of line 251 calls strip on the None it finds in the set
CallSearchTerms ==
    /\ text_op = ""
    /\ text_op' = "create_search_terms"
    /\ text_prev' = text_out
    /\ IF text_none
       THEN text_raised' = "AttributeError" /\ text_out' = text_out
       ELSE text_raised' = "" /\ text_out' = create_search_terms(text_in, hash_seed)
    /\ UNCHANGED <<hash_seed, clientVars, objectVars, extractorVars, text_in, text_none, columnVars, mappingVars, callVars, batchVars>>

TextNext ==
    \/ CallNormalize
    \/ CallNormalizeAgain
    \/ CallSnakeCase
    \/ CallCamelCase
    \/ CallConvert
    \/ CallMeaningfulWords
    \/ CallSynonyms
    \/ CallSearchTerms

SpecText == TextInit /\ [][TextNext]_vars

----------------------------------------------------------------------------
(* determine_column_category, called on a column                           *)

ColumnInit ==
    /\ hash_seed \in Seeds
    /\ NoExtract
    /\ NoClient
    /\ NoObject
    /\ column \in ColumnInputs
    /\ category = ""
    /\ examples = <<>>
    /\ NoText
    /\ NoMapping
    /\ NoBatch

DetermineCategory ==
    /\ category = ""
    /\ category' = determine_column_category(column)
    /\ UNCHANGED <<hash_seed, clientVars, objectVars, extractorVars, column, examples, textVars, mappingVars, callVars, batchVars>>

\* the next call generate_column_mapping makes for the column (line 101)
GenerateExamples ==
    /\ category # ""
    /\ examples = <<>>
    /\ examples' = generate_column_examples(column, hash_seed)
    /\ UNCHANGED <<hash_seed, clientVars, objectVars, extractorVars, column, category, textVars, mappingVars, callVars, batchVars>>

ColumnNext ==
    \/ DetermineCategory
    \/ GenerateExamples

SpecColumn == ColumnInit /\ [][ColumnNext]_vars

----------------------------------------------------------------------------
(* generate_database_mapping, called on a schema and called again          *)

Init ==
    /\ hash_seed \in Seeds
    /\ NoExtract
    /\ NoClient
    /\ NoObject
    /\ client_key \in DOMAIN databases
    /\ schema_info \in SchemaInputs
    /\ runs = 0
    /\ mapping = None
    /\ rebuilt = None
    /\ clock = 0
    /\ NoText
    /\ NoColumn
    /\ NoBatch

\* the first call
Generate ==
    /\ runs = 0
    /\ runs' = 1
    /\ mapping' = generate_database_mapping(client_key, databases[client_key],
                                            schema_info, hash_seed, clock)
    /\ clock' = clock + 1
    /\ UNCHANGED <<hash_seed, clientVars, objectVars, extractorVars, client_key, schema_info, rebuilt, textVars, columnVars, callVars, batchVars>>

\* the second call on the same descriptors, in the same process
Rebuild ==
    /\ runs = 1
    /\ runs' = 2
    /\ rebuilt' = generate_database_mapping(client_key, databases[client_key],
                                            schema_info, hash_seed, clock)
    /\ clock' = clock + 1
    /\ UNCHANGED <<hash_seed, clientVars, objectVars, extractorVars, client_key, schema_info, mapping, textVars, columnVars, callVars, batchVars>>

\* the second call on the same descriptors, in another run of the program:
\* the new process has its own hash seed
RebuildInNewProcess ==
    /\ runs = 1
    /\ runs' = 2
    /\ \E seed \in Seeds :
          /\ hash_seed' = seed
          /\ rebuilt' = generate_database_mapping(client_key, databases[client_key],
                                                  schema_info, seed, clock)
    /\ clock' = clock + 1
    /\ UNCHANGED <<objectVars, clientVars, client_key, schema_info, mapping, textVars, columnVars, callVars, batchVars, extractorVars>>

Next ==
    \/ Generate
    \/ Rebuild
    \/ RebuildInNewProcess

Spec == Init /\ [][Next]_vars

----------------------------------------------------------------------------
(* generate_mapping_for_client and generate_mappings_for_all_clients       *)

\* how a call ends: with a returned value, or with a raised exception
Returned(value) == [raised |-> FALSE, value |-> value]
Raised(exception) == [raised |-> TRUE, value |-> exception]

\* extract_schema_for_client (schema_extractor.py lines 390-405): what the
\* extraction yields for a configured client, {} when it fails; {} for a
\* client without configuration, the ValueError of line 62 being caught
extract_schema_for_client(key, extracted) ==
    IF key \in DOMAIN databases THEN extracted ELSE <<>>

\* MappingGenerator.__init__
MappingGenerator(key) ==
    IF key \in DOMAIN databases THEN Returned(key)
    ELSE Raised("ValueError")

\* save_mapping_to_file: os.makedirs, open or json.dump fail and the exception
\* leaves the function (lines 346, 355-357), or the path is returned
save_mapping_to_file(key, write_ok) ==
    IF write_ok THEN Returned(key \o "_table_mapping.json") ELSE Raised("OSError")

\* lines 383-387: a mapping that is not empty is saved, and returned unless
\* saving raised
SavedAndReturned(made, saving) ==
    IF DOMAIN made # {} /\ saving.raised THEN saving ELSE Returned(made)

\* the try block of generate_mapping_for_client, lines 369-387
GenerateForClientTry(key, extracted, write_ok, seed, now) ==
    IF extract_schema_for_client(key, extracted) = <<>> THEN Returned(EmptyMapping)
    ELSE IF MappingGenerator(key).raised THEN Raised("ValueError")
    ELSE SavedAndReturned(
             generate_database_mapping(key, databases[key],
                                       extract_schema_for_client(key, extracted), seed, now),
             save_mapping_to_file(key, write_ok))

\* generate_mapping_for_client without the except clause of lines 390-392
generate_mapping_for_client_NoExcept(key, extracted, write_ok, seed, now) ==
    GenerateForClientTry(key, extracted, write_ok, seed, now)

\* lines 390-392: an exception of the try block is logged and {} returned
Except(tried) == IF tried.raised THEN Returned(EmptyMapping) ELSE tried

generate_mapping_for_client(key, extracted, write_ok, seed, now) ==
    Except(GenerateForClientTry(key, extracted, write_ok, seed, now))

\* whether the call reaches save_mapping_to_file and the write fails there
WriteFails(key, extracted, write_ok) ==
    extract_schema_for_client(key, extracted) # <<>> /\ ~write_ok

\* config_manager.get_all_clients(): the keys of databases, in the order of
\* the dict (config.py lines 43-62)
get_all_clients == <<"client_a", "client_b">>

\* the client keys a caller can pass: the configured ones and an unknown one
ClientKeys == {"client_a", "client_b", "client_x"}

\* what the extraction of a client's schema can yield
ExtractedSchemas == {schema \in SchemaInputs : Len(schema) <= 1}

BatchInit ==
    /\ hash_seed \in Seeds
    /\ NoExtract
    /\ NoClient
    /\ NoObject
    /\ output_dir \in {None, Some("mappings_out")}
    /\ call_client = ""
    /\ call_outcome = ""
    /\ call_result = None
    /\ call_write_failed = FALSE
    /\ batch_pc = "start"
    /\ attempted = <<>>
    /\ results = <<>>
    /\ write_failed = <<>>
    /\ all_mappings = <<>>
    /\ report = None
    /\ NoText
    /\ NoColumn
    /\ NoMapping

\* one call of generate_mapping_for_client by a caller of the module
GenerateForClient ==
    /\ batch_pc = "start"
    /\ call_outcome = ""
    /\ \E key \in ClientKeys, extracted \in ExtractedSchemas, write_ok \in BOOLEAN :
          \E call \in {generate_mapping_for_client(key, extracted, write_ok, hash_seed, clock)} :
              /\ call_client' = key
              /\ call_outcome' = IF call.raised THEN "raised" ELSE "returned"
              /\ call_result' = call.value
              /\ call_write_failed' = WriteFails(key, extracted, write_ok)
    /\ batch_pc' = "done"
    /\ clock' = clock + 1
    /\ UNCHANGED <<hash_seed, clientVars, objectVars, extractorVars, output_dir, attempted, results, write_failed, all_mappings,
                   report, client_key, schema_info, runs, mapping, rebuilt,
                   textVars, columnVars>>

\* generate_mappings_for_all_clients up to its loop: os.makedirs(output_dir)
\* of line 409 succeeds, or raises out of the function
BatchBegin ==
    /\ batch_pc = "start"
    /\ call_outcome = ""
    /\ \E makedirs_ok \in BOOLEAN :
          batch_pc' = IF output_dir # None /\ ~makedirs_ok THEN "raised" ELSE "loop"
    /\ UNCHANGED <<hash_seed, clientVars, objectVars, extractorVars, output_dir, attempted, results, write_failed, all_mappings,
                   report, callVars, textVars, columnVars, mappingVars>>

\* one pass of the loop of lines 411-422, for the next client
BatchClient ==
    /\ batch_pc = "loop"
    /\ Len(attempted) < Len(get_all_clients)
    /\ \E extracted \in ExtractedSchemas, write_ok \in BOOLEAN :
          \E key \in {get_all_clients[Len(attempted) + 1]} :
          \E call \in {generate_mapping_for_client(key, extracted, write_ok, hash_seed, clock)} :
              /\ attempted' = Append(attempted, key)
              /\ write_failed' = Append(write_failed, WriteFails(key, extracted, write_ok))
              /\ IF call.raised
                 THEN /\ batch_pc' = "raised"
                      /\ UNCHANGED <<results, all_mappings>>
                 ELSE /\ batch_pc' = "loop"
                      /\ results' = Append(results, call.value)
                      /\ all_mappings' =
                             IF DOMAIN call.value # {}
                             THEN [k \in DOMAIN all_mappings \cup {key} |->
                                      IF k = key THEN call.value ELSE all_mappings[k]]
                             ELSE all_mappings
    /\ clock' = clock + 1
    /\ UNCHANGED <<hash_seed, clientVars, objectVars, extractorVars, output_dir, report, callVars, client_key, schema_info, runs,
                   mapping, rebuilt, textVars, columnVars>>

\* the loop is over: the counts are logged (line 424) and all_mappings returned
BatchReturn ==
    /\ batch_pc = "loop"
    /\ Len(attempted) = Len(get_all_clients)
    /\ batch_pc' = "returned"
    /\ report' = Some([ succeeded |-> Cardinality(DOMAIN all_mappings),
                        attempted |-> Len(get_all_clients) ])
    /\ UNCHANGED <<hash_seed, clientVars, objectVars, extractorVars, output_dir, attempted, results, write_failed, all_mappings,
                   callVars, textVars, columnVars, mappingVars>>

BatchNext ==
    \/ GenerateForClient
    \/ BatchBegin
    \/ BatchClient
    \/ BatchReturn

SpecBatch == BatchInit /\ [][BatchNext]_vars

----------------------------------------------------------------------------
(* SchemaExtractor.get_table_info, called on a table                       *)

MaxColumns == 2
MaxForeignKeys == 2

\* the columns of the table asked for, and the columns its foreign keys reference
ColumnNames == <<"OrderID", "customer_id", "note">>
ReferencedColumnNames == <<"CustomerID", "Code">>

\* a row of the columns query (lines 157-179)
ColumnRow(name, is_primary_key) ==
    [ COLUMN_NAME |-> name, DATA_TYPE |-> "int", CHARACTER_MAXIMUM_LENGTH |-> None,
      IS_NULLABLE |-> IF is_primary_key = 1 THEN "NO" ELSE "YES",
      COLUMN_DEFAULT |-> None, IS_PRIMARY_KEY |-> is_primary_key ]

\* a row of the foreign-key query (lines 226-236)
ForeignKeyRow(name, referenced_column) ==
    [ COLUMN_NAME |-> name, REFERENCED_TABLE_SCHEMA |-> "dbo",
      REFERENCED_TABLE_NAME |-> "Customers", REFERENCED_COLUMN_NAME |-> referenced_column,
      CONSTRAINT_NAME |-> "FK_" \o name \o "_" \o referenced_column ]

\* the results of the columns query of at most n rows: one row per column of
\* the table, and a table has no two columns of one name
RECURSIVE ColumnRowsUpTo(_)
ColumnRowsUpTo(n) ==
    IF n = 0 THEN {<<>>}
    ELSE ColumnRowsUpTo(n - 1)
         \cup {Append(rows, ColumnRow(ColumnNames[k], pk)) :
                 rows \in {x \in ColumnRowsUpTo(n - 1) : Len(x) = n - 1},
                 k \in 1..Len(ColumnNames), pk \in 0..1}

ColumnRowInputs ==
    {rows \in ColumnRowsUpTo(MaxColumns) :
        \A i \in 1..Len(rows) : \A j \in 1..Len(rows) :
            i # j => rows[i].COLUMN_NAME # rows[j].COLUMN_NAME}

\* the results of the foreign-key query of at most n rows; a column can be
\* under several constraints
RECURSIVE ForeignKeyRowsUpTo(_)
ForeignKeyRowsUpTo(n) ==
    IF n = 0 THEN {<<>>}
    ELSE ForeignKeyRowsUpTo(n - 1)
         \cup {Append(rows, ForeignKeyRow(ColumnNames[k], ReferencedColumnNames[r])) :
                 rows \in {x \in ForeignKeyRowsUpTo(n - 1) : Len(x) = n - 1},
                 k \in 1..Len(ColumnNames), r \in 1..Len(ReferencedColumnNames)}

\* table_name.split('.', 1), and 'dbo' for a name without a dot (lines 268-273)
DotAt(table_name) ==
    LET dots == {i \in 1..Len(table_name) : SubSeq(table_name, i, i) = "."}
    IN  IF dots = {} THEN 0 ELSE CHOOSE i \in dots : \A j \in dots : i <= j

SchemaOf(table_name) ==
    IF DotAt(table_name) = 0 THEN "dbo" ELSE SubSeq(table_name, 1, DotAt(table_name) - 1)

TableOf(table_name) ==
    IF DotAt(table_name) = 0 THEN table_name
    ELSE SubSeq(table_name, DotAt(table_name) + 1, Len(table_name))

\* get_table_columns: [] when the query raises, else one ColumnInfo per row
get_table_columns(rows, fetched) ==
    IF ~fetched THEN <<>>
    ELSE [i \in 1..Len(rows) |->
            [ ColumnInfo(rows[i].COLUMN_NAME, rows[i].DATA_TYPE,
                         rows[i].CHARACTER_MAXIMUM_LENGTH, rows[i].IS_NULLABLE = "YES",
                         rows[i].IS_PRIMARY_KEY # 0)
              EXCEPT !.default_value = rows[i].COLUMN_DEFAULT ]]

\* get_foreign_keys: [] when the query raises, else one dict per row
get_foreign_keys(rows, fetched) ==
    IF ~fetched THEN <<>>
    ELSE [i \in 1..Len(rows) |->
            [ column |-> rows[i].COLUMN_NAME,
              referenced_table |-> rows[i].REFERENCED_TABLE_SCHEMA \o "."
                                       \o rows[i].REFERENCED_TABLE_NAME,
              referenced_column |-> rows[i].REFERENCED_COLUMN_NAME,
              constraint_name |-> rows[i].CONSTRAINT_NAME ]]

\* the inner loop for one foreign key with lines 287-288 left out: the column
\* is flagged and given no reference
BackFill_NoReference(columns, fk) ==
    LET hits == {i \in 1..Len(columns) : columns[i].name = fk.column}
    IN  IF hits = {} THEN columns
        ELSE [columns EXCEPT ![CHOOSE i \in hits : \A j \in hits : i <= j].is_foreign_key = TRUE]

\* the inner loop of lines 284-289 for one foreign key: the first column of
\* that name is flagged and given the references, and the loop breaks
BackFill(columns, fk) ==
    LET hits == {i \in 1..Len(columns) : columns[i].name = fk.column}
    IN  IF hits = {} THEN columns
        ELSE [columns EXCEPT ![CHOOSE i \in hits : \A j \in hits : i <= j] =
                  ForeignKey(@, fk.referenced_table, fk.referenced_column)]

\* the outer loop of lines 283-289
RECURSIVE BackFillAll(_, _)
BackFillAll(columns, fks) ==
    IF fks = <<>> THEN columns
    ELSE BackFillAll(BackFill(columns, Head(fks)), Tail(fks))

\* lines 291-304
TableInfoOf(table_name, columns, fks, row_count) ==
    LET pk == SelectSeq(columns, LAMBDA col : col.is_primary_key)
    IN  [ name |-> TableOf(table_name), schema |-> SchemaOf(table_name),
          columns |-> columns,
          primary_keys |-> [i \in 1..Len(pk) |-> pk[i].name],
          foreign_keys |-> fks,
          row_count |-> row_count ]

\* lines 276-304 with a table of unknown row count given up as well
InfoOfColumns_NeedsRowCount(table_name, columns, fks, row_count) ==
    IF columns = <<>> \/ row_count = None THEN None
    ELSE Some(TableInfoOf(table_name, BackFillAll(columns, fks), fks, row_count))

\* lines 276-304, once the columns are fetched
InfoOfColumns(table_name, columns, fks, row_count) ==
    IF columns = <<>> THEN None
    ELSE Some(TableInfoOf(table_name, BackFillAll(columns, fks), fks, row_count))

get_table_info(table_name, rows, fetched, fk_rows, fk_fetched, row_count) ==
    InfoOfColumns(table_name, get_table_columns(rows, fetched),
                  get_foreign_keys(fk_rows, fk_fetched), row_count)

SchemaInit ==
    /\ NoClient
    /\ NoObject
    /\ hash_seed = 0
    /\ extracted_table \in {"Orders", "sales.Orders"}
    /\ column_rows \in ColumnRowInputs
    /\ columns_fetched \in BOOLEAN
    /\ foreign_key_rows \in ForeignKeyRowsUpTo(MaxForeignKeys)
    /\ foreign_keys_fetched \in BOOLEAN
    /\ counted_rows \in {None, Some(7)}
    /\ extract_done = FALSE
    /\ extracted_info = None
    /\ NoText
    /\ NoColumn
    /\ NoMapping
    /\ NoBatch

GetTableInfo ==
    /\ ~extract_done
    /\ extract_done' = TRUE
    /\ extracted_info' = get_table_info(extracted_table, column_rows, columns_fetched,
                                        foreign_key_rows, foreign_keys_fetched, counted_rows)
    /\ UNCHANGED <<hash_seed, clientVars, objectVars, extractorInputs, textVars, columnVars, mappingVars,
                   callVars, batchVars>>

SchemaNext == GetTableInfo

SpecSchema == SchemaInit /\ [][SchemaNext]_vars

----------------------------------------------------------------------------
(* Properties of the utils.py functions                                    *)

Converted == text_op = "convert_technical_to_natural"
Searched == text_op = "create_search_terms" /\ text_raised = ""

\* C4: convert_technical_to_natural maps "tbl_Customer_Orders" to
\* "Customer Orders", "OrderDate" to "Order Date", "IsActive" to "Is Active"
\* and "user_profile_settings" to "User Profile Settings".
C4_Fixtures ==
    Converted =>
        /\ (text_in = "tbl_Customer_Orders" => text_out = "Customer Orders")
        /\ (text_in = "OrderDate" => text_out = "Order Date")
        /\ (text_in = "IsActive" => text_out = "Is Active")
        /\ (text_in = "user_profile_settings" => text_out = "User Profile Settings")

C4_Witness ==
    Converted /\ text_in = "tbl_Customer_Orders" /\ text_out = "Customer Orders"

\* the word with its first letter upper-cased and every other letter as it is
CapitalizeFirstOnly(w) == IF w = "" THEN "" ELSE UpperCh(Head(w)) \o Tail(w)

\* C5: convert_technical_to_natural capitalizes only the first letter of every
\* segmented word and leaves the other letters of the word unchanged, so that
\* "CustomerID" yields "Customer ID".
C5_AcronymsSurvive ==
    Converted /\ text_in # "" =>
        /\ text_out = Join([i \in 1..Len(Split(Segmented(text_in))) |->
                              CapitalizeFirstOnly(Split(Segmented(text_in))[i])])
        /\ (text_in = "CustomerID" => text_out = "Customer ID")

\* what line 217 returns for "CustomerID": the acronym is lower-cased
C5_Witness ==
    Converted /\ text_in = "CustomerID" /\ text_out = "Customer Id"

\* C7 as stated: for every identifier, the list returned by
\* create_search_terms contains a term equal to the identifier when compared
\* case-insensitively.
C7_ContainsOriginal ==
    Searched => \E k \in 1..Len(text_out) : Lower(text_out[k]) = Lower(text_in)

\* C7 amended: for every identifier that has a non-whitespace character, the
\* list returned by create_search_terms contains a term equal to the identifier
\* when compared case-insensitively; for an empty or whitespace-only
\* identifier the list is empty.
C7_ContainsNonBlankOriginal ==
    Searched =>
        IF Strip(text_in) # ""
        THEN \E k \in 1..Len(text_out) : Lower(text_out[k]) = Lower(text_in)
        ELSE text_out = <<>>

C7_Witness ==
    /\ Searched
    /\ text_in = "CustomerID"
    /\ InList("CustomerID", text_out)
    /\ InList("customer", text_out)

\* C8: the list returned by create_search_terms contains no two equal entries
\* and no empty or whitespace-only string.
C8_DistinctNonBlank ==
    Searched =>
        /\ \A i, j \in 1..Len(text_out) : i # j => text_out[i] # text_out[j]
        /\ \A i \in 1..Len(text_out) : Strip(text_out[i]) # ""

\* a call whose list held repeated terms before line 251
C8_Witness ==
    /\ Searched
    /\ text_in = "Name"
    /\ InList("name", text_out)
    /\ Len(text_out) < Len(SearchTermsRaw(text_in, hash_seed))

\* only lowercase letters, digits and single interior spaces
Normalized(s) ==
    /\ \A i \in 1..Len(s) : Ch(s, i) \in LowerSet \cup DigitSet \cup {" "}
    /\ s # "" => Ch(s, 1) # " " /\ Ch(s, Len(s)) # " "
    /\ \A i \in 1..(Len(s) - 1) : ~(Ch(s, i) = " " /\ Ch(s, i + 1) = " ")

\* C9: normalize_text is idempotent, and its result contains only lowercase
\* letters, digits and single interior spaces.
C9_NormalizeIdempotent ==
    /\ text_op = "normalize_text" => Normalized(text_out)
    /\ text_op = "normalize_text twice" => text_out = text_prev

\* a second call on a result that differs from the input it was made from
C9_Witness ==
    /\ text_op = "normalize_text twice"
    /\ text_in = "dbo.Customer"
    /\ text_out = "dbo customer"
    /\ text_prev = "dbo customer"

----------------------------------------------------------------------------
(* Properties of determine_column_category                                 *)

Categories == {"identifier", "reference", "datetime", "money", "quantity", "numeric",
               "boolean", "email", "phone", "address", "name", "description", "text",
               "general"}

\* C6: determine_column_category returns, for every name, declared type and
\* key flags, one value of the fixed category list; a primary-key column is
\* always "identifier", and a foreign-key column that is no primary key is
\* always "reference".
C6_CategoryTotal ==
    category # "" =>
        /\ category \in Categories
        /\ (column.is_primary_key => category = "identifier")
        /\ (~column.is_primary_key /\ column.is_foreign_key => category = "reference")

\* the primary key named "CreatedDate"
C6_Witness ==
    /\ category = "identifier"
    /\ column.name = "CreatedDate"
    /\ column.data_type = "datetime"
    /\ column.is_primary_key

----------------------------------------------------------------------------
(* Properties of generate_database_mapping                                 *)

\* a mapping was generated from a schema that has tables
Generated == runs >= 1 /\ schema_info # <<>>

\* C1: after generate_search_index returns, no bucket of the index holds a
\* path twice.
C1_NoDuplicatePaths ==
    Generated =>
        \A term \in DOMAIN mapping.search_index :
            \A i, j \in 1..Len(mapping.search_index[term]) :
                i # j => mapping.search_index[term][i] # mapping.search_index[term][j]

\* the table path of dbo.Customers, appended once for the term "Customers" and
\* once for the term "customers"
C1_Witness ==
    /\ Generated
    /\ schema_info = <<TablePool[1]>>
    /\ mapping.search_index["customers"] = <<"dbo.Customers", "dbo.Customers">>

\* C2: for the single table dbo.Customers with the columns CustomerID (int,
\* primary key) and CustomerName (varchar(100)), the mapping has total_tables
\* 1, total_columns 2, the category "identifier" for CustomerID, and a bucket
\* "customer" that holds the table path and the two column paths.
C2_CustomersEndToEnd ==
    Generated /\ schema_info = <<TablePool[1]>> =>
        /\ mapping.client_info.total_tables = 1
        /\ mapping.client_info.total_columns = 2
        /\ mapping.tables["dbo.Customers"].columns["CustomerID"].category = "identifier"
        /\ "customer" \in DOMAIN mapping.search_index
        /\ {"dbo.Customers", "dbo.Customers.CustomerID", "dbo.Customers.CustomerName"}
               \subseteq Elems(mapping.search_index["customer"])

\* the bucket "customer" of that mapping holds the two column paths only; the
\* table path is in the bucket "customers"
C2_Witness ==
    /\ Generated
    /\ schema_info = <<TablePool[1]>>
    /\ mapping.client_info.total_tables = 1
    /\ mapping.client_info.total_columns = 2
    /\ mapping.tables["dbo.Customers"].columns["CustomerID"].category = "identifier"
    /\ Elems(mapping.search_index["customer"])
           = {"dbo.Customers.CustomerID", "dbo.Customers.CustomerName"}
    /\ InList("dbo.Customers", mapping.search_index["customers"])

\* C3: the column UnitPrice of declared type "decimal" on the table Products is
\* categorized "money" and described as "Unit Price from Products (number)".
C3_UnitPriceEndToEnd ==
    Generated /\ "dbo.Products" \in DOMAIN mapping.tables =>
        /\ mapping.tables["dbo.Products"].columns["UnitPrice"].category = "money"
        /\ mapping.tables["dbo.Products"].columns["UnitPrice"].description
               = "Unit Price from Products (number)"

\* the description of UnitPrice carries no type hint
C3_Witness ==
    /\ Generated
    /\ "dbo.Products" \in DOMAIN mapping.tables
    /\ mapping.tables["dbo.Products"].columns["UnitPrice"].category = "money"
    /\ mapping.tables["dbo.Products"].columns["UnitPrice"].description
           = "Unit Price from Products"

\* C10: a second generate_database_mapping on the same descriptors yields the
\* same tables, the same search_index and the same counts as the first; only
\* the timestamps may differ.
C10_RebuildIdentical ==
    runs = 2 /\ schema_info # <<>> =>
        /\ rebuilt.tables = mapping.tables
        /\ rebuilt.search_index = mapping.search_index
        /\ rebuilt.client_info.total_tables = mapping.client_info.total_tables
        /\ rebuilt.client_info.total_columns = mapping.client_info.total_columns


\* a rebuild in another interpreter process whose tables differ from the first
\* run's, with the same index and the same counts
C10_Witness ==
    /\ runs = 2
    /\ schema_info # <<>>
    /\ rebuilt.tables # mapping.tables
    /\ rebuilt.search_index = mapping.search_index
    /\ rebuilt.client_info.total_tables = mapping.client_info.total_tables
    /\ rebuilt.client_info.total_columns = mapping.client_info.total_columns

----------------------------------------------------------------------------
(* Properties of generate_database_mapping, continued                      *)

\* C11: generate_database_mapping called with an empty set of tables returns
\* the empty result: a dict with no client_info, no tables and no
\* search_index.
C11_EmptySchemaEmptyResult ==
    /\ runs >= 1 /\ schema_info = <<>> => DOMAIN mapping = {}
    /\ runs = 2 /\ schema_info = <<>> => DOMAIN rebuilt = {}

\* the call made on no tables
C11_Witness ==
    runs = 1 /\ schema_info = <<>> /\ mapping = EmptyMapping

\* the number of ColumnInfo descriptors of the tables of a schema
RECURSIVE SumDescriptors(_)
SumDescriptors(tables) ==
    IF tables = <<>> THEN 0 ELSE Len(Head(tables).columns) + SumDescriptors(Tail(tables))

\* C12: the mapping of a non-empty input has total_tables equal to the number
\* of input tables and total_columns equal to the sum, over the input tables,
\* of the number of column descriptors of each table, also when two columns of
\* a table carry the same name; the metadata.column_count of each table equals
\* the number of entries of its columns mapping.
C12_CountsMatchInput ==
    Generated =>
        /\ mapping.client_info.total_tables = Len(schema_info)
        /\ mapping.client_info.total_columns = SumDescriptors(schema_info)
        /\ \A k \in DOMAIN mapping.tables :
               mapping.tables[k].metadata.column_count
                   = Cardinality(DOMAIN mapping.tables[k].columns)

\* the table with two columns named "Customer": three descriptors, two
\* entries, two columns counted
C12_Witness ==
    /\ Generated
    /\ schema_info = <<TablePool[4]>>
    /\ Len(schema_info[1].columns) = 3
    /\ mapping.client_info.total_tables = 1
    /\ mapping.client_info.total_columns = 2
    /\ mapping.tables["sales.tbl_Customer_Orders"].metadata.column_count = 3
    /\ DOMAIN mapping.tables["sales.tbl_Customer_Orders"].columns = {"Customer", "Orders"}
    /\ mapping.tables["sales.tbl_Customer_Orders"].columns["Customer"].data_type = "int"

\* the lower-cased search terms of a name
LowerTermsOf(name) ==
    {Lower(term) : term \in Elems(create_search_terms(name, hash_seed))}

\* the set of the paths the index holds under a term (none if it is no key)
PathsUnder(index, term) ==
    IF term \in DOMAIN index THEN Elems(index[term]) ELSE {}

\* C13: a table path is in the bucket of a term exactly when the term is the
\* lower-cased form of one of the table's own search terms, and a column path
\* is in the bucket of a term exactly when the term is the lower-cased form of
\* one of the column's search terms; every key of the index is lower-case, and
\* every path of the index names an input table or a column of one.
C13_ExactMembership ==
    Generated =>
        LET index == mapping.search_index
            tables == 1..Len(schema_info)
            columns(i) == 1..Len(schema_info[i].columns)
            column_path(i, c) ==
                TablePath(schema_info[i]) \o "." \o schema_info[i].columns[c].name
        IN  /\ \A i \in tables :
                   \A own \in {LowerTermsOf(schema_info[i].name)} :
                       \A term \in DOMAIN index \cup own :
                           TablePath(schema_info[i]) \in PathsUnder(index, term)
                               <=> term \in own
            /\ \A i \in tables : \A c \in columns(i) :
                   \A own \in {LowerTermsOf(schema_info[i].columns[c].name)} :
                       \A term \in DOMAIN index \cup own :
                           column_path(i, c) \in PathsUnder(index, term)
                               <=> term \in own
            /\ \A term \in DOMAIN index : term = Lower(term)
            /\ \A term \in DOMAIN index :
                   Elems(index[term]) \subseteq
                       {TablePath(schema_info[i]) : i \in tables}
                       \cup UNION {{column_path(i, c) : c \in columns(i)} : i \in tables}

\* the index of dbo.Orders: "order" is a term of the column OrderID only,
\* "purchase" a term of the table and of the column
C13_Witness ==
    /\ Generated
    /\ schema_info = <<TablePool[3]>>
    /\ "dbo.Orders" \notin PathsUnder(mapping.search_index, "order")
    /\ "dbo.Orders.OrderID" \in PathsUnder(mapping.search_index, "order")
    /\ {"dbo.Orders", "dbo.Orders.OrderID"} \subseteq PathsUnder(mapping.search_index, "purchase")

----------------------------------------------------------------------------
(* Properties of generate_mapping_for_client and the all-clients batch     *)

\* C14: when writing the output document fails during
\* generate_mapping_for_client, the caller observes the failure as an error,
\* not as a normal return value; so does the caller of the all-clients batch.
C14_WriteFailureSurfaced ==
    /\ call_write_failed => call_outcome = "raised"
    /\ (\E i \in 1..Len(write_failed) : write_failed[i]) => batch_pc = "raised"

\* a call during which the write failed, and which returned {} like a call
\* that found no schema
C14_Witness ==
    /\ call_client = "client_a"
    /\ call_write_failed
    /\ call_outcome = "returned"
    /\ call_result = EmptyMapping

\* C15: generate_mappings_for_all_clients never aborts on a failing client: it
\* attempts every configured client once, in configuration order; its result
\* holds exactly the clients whose call returned a non-empty mapping, and the
\* counts it reports are the size of the result and the number of configured
\* clients.
C15_BatchAttemptsEveryClient ==
    /\ batch_pc = "raised" => attempted = <<>>
    /\ attempted = SubSeq(get_all_clients, 1, Len(attempted))
    /\ batch_pc = "returned" =>
          /\ attempted = get_all_clients
          /\ Len(results) = Len(attempted)
          /\ DOMAIN all_mappings
                 = {attempted[i] : i \in {j \in 1..Len(results) : DOMAIN results[j] # {}}}
          /\ \A i \in 1..Len(results) :
                 DOMAIN results[i] # {} => all_mappings[attempted[i]] = results[i]
          /\ report = Some([ succeeded |-> Cardinality(DOMAIN all_mappings),
                             attempted |-> Len(get_all_clients) ])

\* a batch whose first client failed at the write and whose second succeeded
C15_Witness ==
    /\ batch_pc = "returned"
    /\ write_failed = <<TRUE, FALSE>>
    /\ DOMAIN all_mappings = {"client_b"}
    /\ report = Some([succeeded |-> 1, attempted |-> 2])

----------------------------------------------------------------------------
(* Properties of the utils.py functions on an empty or missing argument    *)

CalledOnNothing == text_op # "" /\ (text_none \/ text_in = "")

\* C16: called on "" or on None, no text function raises; normalize_text,
\* snake_case_to_words, camel_case_to_words and convert_technical_to_natural
\* return "", and extract_meaningful_words, create_search_terms and
\* generate_synonyms return a list that holds no non-empty term.
C16_NothingInNothingOut ==
    CalledOnNothing =>
        /\ text_raised = ""
        /\ text_op \in {"normalize_text", "normalize_text twice", "snake_case_to_words",
                        "camel_case_to_words", "convert_technical_to_natural"}
              => text_out = ""
        /\ text_op \in {"extract_meaningful_words", "create_search_terms",
                        "generate_synonyms"}
              => \A k \in 1..Len(text_out) : text_out[k] = ""

\* create_search_terms(None) has raised
C16_Witness ==
    /\ text_none
    /\ text_op = "create_search_terms"
    /\ text_raised = "AttributeError"

----------------------------------------------------------------------------
(* Properties of get_table_info                                            *)

\* C17: in the table get_table_info returns, every column flagged as a
\* foreign key has a referenced table and a referenced column, every column
\* not flagged has neither, and every name in primary_keys is the name of a
\* column of the table.
C17_ForeignKeysBackFilled ==
    (extract_done /\ extracted_info # None) =>
        /\ \A i \in 1..Len(extracted_info[1].columns) :
              IF extracted_info[1].columns[i].is_foreign_key
              THEN /\ extracted_info[1].columns[i].referenced_table # None
                   /\ extracted_info[1].columns[i].referenced_column # None
              ELSE /\ extracted_info[1].columns[i].referenced_table = None
                   /\ extracted_info[1].columns[i].referenced_column = None
        /\ \A k \in 1..Len(extracted_info[1].primary_keys) :
              \E i \in 1..Len(extracted_info[1].columns) :
                  extracted_info[1].columns[i].name = extracted_info[1].primary_keys[k]

\* a table with a primary key, a column under two foreign keys (the second
\* fetched wins), and nothing else flagged
C17_Witness ==
    /\ extract_done
    /\ extracted_info # None
    /\ Len(foreign_key_rows) = 2
    /\ foreign_key_rows[1].REFERENCED_COLUMN_NAME = "CustomerID"
    /\ extracted_info[1].primary_keys = <<"OrderID">>
    /\ Len(extracted_info[1].columns) = 2
    /\ ~extracted_info[1].columns[1].is_foreign_key
    /\ extracted_info[1].columns[2].name = "customer_id"
    /\ extracted_info[1].columns[2].is_foreign_key
    /\ extracted_info[1].columns[2].referenced_table = Some("dbo.Customers")
    /\ extracted_info[1].columns[2].referenced_column = Some("Code")

----------------------------------------------------------------------------
(* Properties of determine_column_category, continued                      *)

\* the rules as the specification words them, on the lower-cased name and type
NoKey == ~column.is_primary_key /\ ~column.is_foreign_key

DatetimeRule ==
    \/ ContainsAny(LowerWord(column.name), <<"date", "time", "created", "modified", "updated">>)
    \/ ContainsAny(LowerWord(column.data_type), <<"date", "time", "timestamp">>)

NumericType ==
    ContainsAny(LowerWord(column.data_type), <<"int", "decimal", "numeric", "float", "money">>)

TextType == ContainsAny(LowerWord(column.data_type), <<"varchar", "text", "char">>)

\* rule 5 with "starts with" for is_ and has_
BooleanRule ==
    \/ ContainsAny(LowerWord(column.data_type), <<"bit", "bool">>)
    \/ StartsWith(LowerWord(column.name), "is_")
    \/ StartsWith(LowerWord(column.name), "has_")
    \/ ContainsAny(LowerWord(column.name), <<"active", "enabled">>)

\* C18: for a column that is no key, does not match the datetime rule and has
\* no numeric type, the category is "boolean" exactly when the type contains
\* bit or bool, or the name starts with is_ or has_, or the name contains
\* active or enabled; is_ or has_ in the middle of the name does not count.
C18_BooleanByPrefix ==
    (category # "" /\ NoKey /\ ~DatetimeRule /\ ~NumericType) =>
        (category = "boolean" <=> BooleanRule)

\* the xml column "xis_" was classified as boolean
C18_Witness ==
    /\ column.name = "xis_"
    /\ column.data_type = "xml"
    /\ NoKey
    /\ category = "boolean"

\* the category the name tests under a numeric type give
NumericOrder ==
    IF ContainsAny(LowerWord(column.name), <<"price", "cost", "amount", "value", "total">>)
    THEN "money"
    ELSE IF ContainsAny(LowerWord(column.name), <<"quantity", "count", "number">>)
    THEN "quantity"
    ELSE "numeric"

\* the category the name tests under a text type give
TextOrder ==
    IF ContainsAny(LowerWord(column.name), <<"email", "mail">>) THEN "email"
    ELSE IF ContainsAny(LowerWord(column.name), <<"phone", "telephone", "mobile">>) THEN "phone"
    ELSE IF ContainsAny(LowerWord(column.name), <<"address", "street", "city", "state", "zip">>)
    THEN "address"
    ELSE IF ContainsAny(LowerWord(column.name), <<"name", "title", "label">>) THEN "name"
    ELSE IF ContainsAny(LowerWord(column.name), <<"description", "notes", "comment">>)
    THEN "description"
    ELSE "text"

----------------------------------------------------------------------------
(* Properties of generate_column_examples                                  *)

\* the block the conditions select, tried in their order on the key flag and
\* the lower-cased name: 0 when none matches
BlockSelected ==
    IF column.is_primary_key THEN 1
    ELSE IF ContainsAny(LowerWord(column.name), <<"date", "time">>) THEN 2
    ELSE IF ContainsAny(LowerWord(column.name), <<"price", "cost", "amount", "value", "total">>)
    THEN 3
    ELSE IF ContainsAny(LowerWord(column.name), <<"quantity", "count", "number">>) THEN 4
    ELSE IF ContainsAny(LowerWord(column.name), <<"name", "title">>) THEN 5
    ELSE IF ContainsAny(LowerWord(column.name), <<"status", "state", "type", "category">>) THEN 6
    ELSE 0

\* the phrases of each block for a natural name
BlockPhrases(natural) ==
    << << "find by " \o natural, "get record with " \o natural, "lookup " \o natural >>,
       << "when was " \o natural, "show " \o natural \o " after", "filter by " \o natural >>,
       << "how much is " \o natural, "total " \o natural, "average " \o natural,
          natural \o " greater than", natural \o " less than" >>,
       << "how many " \o natural, "count of " \o natural, "sum of " \o natural >>,
       << "find by " \o natural, "search " \o natural, natural \o " contains",
          natural \o " starts with" >>,
       << "where " \o natural \o " is", "filter by " \o natural, "group by " \o natural >> >>

\* the three fixed phrases followed by the selected block, if any
FixedAndBlock(natural) ==
    << "show me " \o natural, "what is the " \o natural, "find " \o natural >>
    \o (IF BlockSelected = 0 THEN <<>> ELSE BlockPhrases(natural)[BlockSelected])

\* the list begins with head; what follows are at most three phrases "show
\* me {synonym}" for synonyms of the name other than the name; reaches 10
\* entries at most
HeadThenSynonyms(head, synonyms) ==
    /\ Len(examples) <= 10
    /\ Len(examples) >= Len(head)
    /\ SubSeq(examples, 1, Len(head)) = head
    /\ Len(examples) - Len(head) <= 3
    /\ \A i \in (Len(head) + 1)..Len(examples) :
           \E k \in 1..Len(synonyms) :
               /\ synonyms[k] # column.name
               /\ examples[i] = "show me " \o synonyms[k]

\* C20: the list generate_column_examples returns has at most 10 entries,
\* begins with "show me N", "what is the N", "find N" for the natural name N,
\* and goes on with the phrases of the one block selected by the first
\* matching condition in the order primary key, date/time, money words,
\* quantity words, name/title, status/state/type/category (of no block when
\* none matches), whatever category determine_column_category gave; only
\* synonym phrases follow.
C20_ExamplePhrases ==
    examples # <<>> =>
        HeadThenSynonyms(FixedAndBlock(NaturalName(column.name)),
                         SynonymsOfName(column.name, hash_seed))

\* the column "price" of type datetime: classified as datetime, given the
\* money block, and cut to 10 entries
C20_Witness ==
    /\ column.name = "price"
    /\ column.data_type = "datetime"
    /\ ~column.is_primary_key
    /\ category = "datetime"
    /\ Len(examples) = 10
    /\ examples[4] = "how much is Price"
    /\ examples[8] = "Price less than"
    /\ examples[10] = "show me amount"

----------------------------------------------------------------------------
(* Properties of generate_column_examples, continued                       *)

\* the synonyms of the column name other than the name
OtherSynonyms == Elems(SynonymsOfName(column.name, hash_seed)) \ {column.name}

\* min(a, b)
Min(a, b) == IF a < b THEN a ELSE b

\* after the phrases of head, no phrase is for the column's own name, and
\* there are min(3, k) more phrases for the k other synonyms, cut to 10
HeadThenThreeOthers(head, k) ==
    /\ \A i \in (Len(head) + 1)..Len(examples) : examples[i] # "show me " \o column.name
    /\ Len(examples) = Min(10, Len(head) + Min(3, k))

\* C21: after the block, generate_column_examples appends a "show me
\* {synonym}" phrase for up to 3 synonyms of the column name other than the
\* name: none of the appended phrases is for the name itself, and a column
\* with k synonyms other than its name gets min(3, k) of them before the
\* list is cut to 10 entries.
C21_ThreeOtherSynonyms ==
    examples # <<>> =>
        HeadThenThreeOthers(FixedAndBlock(NaturalName(column.name)),
                            Cardinality(OtherSynonyms))

\* the column "name" has the three other synonyms title, label, description;
\* the name is among the first three the list holds and only two phrases are
\* appended
C21_Witness ==
    /\ column.name = "name"
    /\ ~column.is_primary_key
    /\ hash_seed = 0
    /\ Cardinality(OtherSynonyms) = 3
    /\ Len(examples) = 9
    /\ examples[8] = "show me title"
    /\ examples[9] = "show me label"

----------------------------------------------------------------------------
(* Properties of generate_synonyms                                         *)

Synonymized == text_op = "generate_synonyms" /\ text_raised = ""

\* the table keys that are inside the lower-cased word or hold it
MatchingKeys(word) ==
    {k \in 1..Len(synonym_map) :
        \/ Contains(Lower(word), synonym_map[k].key)
        \/ Contains(synonym_map[k].key, Lower(word))}

\* the alternates of these keys
AlternatesOf(keys) == UNION {Elems(synonym_map[k].values) : k \in keys}

\* C22: generate_synonyms returns a collection without duplicates that holds
\* the original word and, besides it, exactly the alternates of every table
\* key that is a substring of the lower-cased word or has the lower-cased word
\* as a substring; alternates of the other keys are absent.
C22_SynonymsOfMatchingKeys ==
    Synonymized =>
        /\ \A i, j \in 1..Len(text_out) : i # j => text_out[i] # text_out[j]
        /\ Elems(text_out) = {text_in} \cup AlternatesOf(MatchingKeys(text_in))

\* "userID" received the alternates of id and of user, and nothing else
C22_Witness ==
    /\ Synonymized
    /\ text_in = "userID"
    /\ Elems(text_out) = {"userID", "identifier", "key", "number",
                          "person", "customer", "client", "employee"}

----------------------------------------------------------------------------
(* Properties of convert_technical_to_natural, continued                   *)

\* the name without the k-th prefix of the list, or the name for k = 0;
\* likewise for the suffixes
WithoutPrefix(name, k) ==
    IF k = 0 THEN name ELSE SubSeq(name, Len(prefixes_to_remove[k]) + 1, Len(name))

WithoutSuffix(name, k) ==
    IF k = 0 THEN name ELSE SubSeq(name, 1, Len(name) - Len(suffixes_to_remove[k]))

\* k is the first prefix of the list the name starts with, whatever the case
\* of its letters, or 0 when it starts with none; likewise for the suffixes
FirstPrefix(name, k) ==
    /\ k # 0 => StartsWith(Lower(name), prefixes_to_remove[k])
    /\ \A j \in 1..Len(prefixes_to_remove) :
           (k = 0 \/ j < k) => ~StartsWith(Lower(name), prefixes_to_remove[j])

FirstSuffix(name, k) ==
    /\ k # 0 => EndsWith(Lower(name), suffixes_to_remove[k])
    /\ \A j \in 1..Len(suffixes_to_remove) :
           (k = 0 \/ j < k) => ~EndsWith(Lower(name), suffixes_to_remove[j])

\* the natural name of what is left after the stripping
NaturalOfStripped(name) ==
    Join(CapitalizeAll(Split(IF Contains(name, "_") THEN snake_case_to_words(name)
                             ELSE camel_case_to_words(name))))

\* C23: convert_technical_to_natural removes the first listed prefix the
\* identifier starts with, then the first listed suffix the rest ends with,
\* and strips nothing more, even where another prefix or suffix then
\* matches; an identifier that is exactly a suffix of the list gives "".
C23_OnePrefixOneSuffix ==
    (Converted /\ ~text_none /\ text_in # "") =>
        /\ \E p \in 0..Len(prefixes_to_remove) : \E q \in 0..Len(suffixes_to_remove) :
              /\ FirstPrefix(text_in, p)
              /\ FirstSuffix(WithoutPrefix(text_in, p), q)
              /\ text_out = NaturalOfStripped(WithoutSuffix(WithoutPrefix(text_in, p), q))
        /\ (\E q \in 1..Len(suffixes_to_remove) : text_in = suffixes_to_remove[q])
              => text_out = ""

\* "tbl_dbo." lost tbl_ and kept dbo.
C23_Witness ==
    /\ Converted
    /\ text_in = "tbl_dbo."
    /\ text_out = "Dbo."

----------------------------------------------------------------------------
(* Properties of snake_case_to_words and camel_case_to_words               *)

\* a word boundary follows position i of s: a lower-case letter before an
\* upper-case one, or an upper-case letter before an upper-case and then a
\* lower-case one
Boundary(s, i) ==
    \/ i < Len(s) /\ Ch(s, i) \in LowerSet /\ Ch(s, i + 1) \in UpperSet
    \/ /\ i + 1 < Len(s)
       /\ Ch(s, i) \in UpperSet
       /\ Ch(s, i + 1) \in UpperSet
       /\ Ch(s, i + 2) \in LowerSet

\* s with one space put in at every boundary and nothing else changed
WithBoundaries(s) ==
    ConcatStr([i \in 1..Len(s) |-> IF Boundary(s, i) THEN Ch(s, i) \o " " ELSE Ch(s, i)])

\* the calls insert the boundaries and change nothing else, underscores
\* becoming spaces and the result being trimmed on the underscore path
OnlyBoundariesInserted ==
    /\ (text_op = "camel_case_to_words" /\ ~text_none)
          => text_out = WithBoundaries(text_in)
    /\ (text_op = "snake_case_to_words" /\ ~text_none)
          => text_out = Strip(WithBoundaries(ReplaceCh(text_in, "_", " ")))
    /\ (text_op = "camel_case_to_words" /\ text_in = "customerID")
          => text_out = "customer ID"
    /\ (text_op = "camel_case_to_words" /\ text_in = "XMLParser")
          => text_out = "XML Parser"
    /\ (text_op = "snake_case_to_words" /\ text_in = "user_profileID")
          => text_out = "user profile ID"

\* on an identifier without underscores the two functions return the same
BothPathsAgree ==
    (~text_none /\ ~Contains(text_in, "_")) =>
        /\ text_op = "camel_case_to_words" => text_out = snake_case_to_words(text_in)
        /\ text_op = "snake_case_to_words" => text_out = camel_case_to_words(text_in)

\* C24: snake_case_to_words and camel_case_to_words only insert word
\* boundaries: a space between a lower-case letter and a directly following
\* upper-case letter and between an upper-case letter and a following
\* upper-case-then-lower-case pair, underscores becoming spaces, no letter or
\* digit changed, dropped or moved; and on an identifier without underscores
\* both return the same result.
C24_SegmentationOnlyInsertsBoundaries ==
    /\ OnlyBoundariesInserted
    /\ BothPathsAgree

\* camel_case_to_words kept the leading space that snake_case_to_words trims
C24_Witness ==
    /\ text_op = "camel_case_to_words"
    /\ text_in = " Customer"
    /\ text_out = " Customer"
    /\ snake_case_to_words(text_in) = "Customer"

(***************************************************************************)
(* The order of the paths of a bucket (mapping_generator.py lines 308-331) *)
(***************************************************************************)

\* the paths in the order the loops of lines 310-329 come to them: for every
\* table its key (line 310), then the paths of its columns as declared
\* (lines 320-322)
ProcessingOrder(tables) ==
    ConcatSeq([t \in 1..Len(tables) |->
                 <<TablePath(tables[t])>>
                 \o [c \in 1..Len(tables[t].columns) |->
                       TablePath(tables[t]) \o "." \o tables[t].columns[c].name]])

\* the first position of x in xs
FirstIndex(xs, x) ==
    CHOOSE i \in 1..Len(xs) : xs[i] = x /\ \A j \in 1..(i - 1) : xs[j] # x

\* C25: in every bucket of the search index the paths stand in processing
\* order: a path that the loops reach first stands before one they reach
\* later (the paths of an earlier table before those of a later table, the
\* path of a table before the paths of its columns, the column paths of a
\* table in declaration order), and a column path stands once, where it was
\* first inserted.
C25_BucketsInProcessingOrder ==
    Generated =>
        \A order \in {ProcessingOrder(schema_info)} :
            \A term \in DOMAIN mapping.search_index :
                \A bucket \in {mapping.search_index[term]} :
                    \A i, j \in 1..Len(bucket) :
                        i < j =>
                            /\ FirstIndex(order, bucket[i]) <= FirstIndex(order, bucket[j])
                            /\ bucket[i] = bucket[j] =>
                                   \E t \in 1..Len(schema_info) :
                                       bucket[i] = TablePath(schema_info[t])

\* dbo.Customers before sales.tbl_Customer_Orders: the bucket of "customer"
\* holds the column of the first table, then the second table, then the
\* column Customer of the second table, declared twice and inserted once
C25_Witness ==
    /\ Generated
    /\ schema_info = <<TablePool[1], TablePool[4]>>
    /\ "customer" \in DOMAIN mapping.search_index
    /\ mapping.search_index["customer"] =
           << "dbo.Customers.CustomerID", "dbo.Customers.CustomerName",
              "sales.tbl_Customer_Orders", "sales.tbl_Customer_Orders.Customer" >>

----------------------------------------------------------------------------
(* A caller of the module and the objects it holds: generate_table_mapping *)
(* on a TableInfo the caller goes on using, and create_sample_mapping      *)
(* (mapping_generator.py lines 40-82).  A Python list is an object: the     *)
(* TableInfo refers to its lists, and an assignment of a list stores the    *)
(* reference, not a copy.                                                   *)

MaxChanges == 2

\* a reference to the list object id
Ref(id) == [ref |-> id]

\* the TableInfo object of a table: its three lists are objects of their own
\* (schema_extractor.py lines 42-45)
SourceObject(table_info) ==
    [ name |-> table_info.name, schema |-> table_info.schema,
      columns |-> Ref("columns"), primary_keys |-> Ref("primary_keys"),
      foreign_keys |-> Ref("foreign_keys"), row_count |-> table_info.row_count ]

ListsOf(table_info) ==
    [ columns |-> table_info.columns, primary_keys |-> table_info.primary_keys,
      foreign_keys |-> table_info.foreign_keys ]

\* the TableInfo as it reads now
TableInfoNow(source, lists) ==
    [ name |-> source.name, schema |-> source.schema,
      columns |-> lists[source.columns.ref],
      primary_keys |-> lists[source.primary_keys.ref],
      foreign_keys |-> lists[source.foreign_keys.ref],
      row_count |-> source.row_count ]

\* the dict of lines 63-79: "primary_keys" and "foreign_keys" are given the
\* lists of the TableInfo themselves (lines 70-71); every other value is a
\* str, an int, a bool, None or an object made during the call
TableMappingObject(source, lists, seed) ==
    [generate_table_mapping(TableInfoNow(source, lists), seed)
        EXCEPT !.primary_keys = source.primary_keys,
               !.foreign_keys = source.foreign_keys]

\* what the dict reads, its references followed
ReadMapping(table_mapping, lists) ==
    [table_mapping EXCEPT !.primary_keys = lists[table_mapping.primary_keys.ref],
                          !.foreign_keys = lists[table_mapping.foreign_keys.ref]]

\* the metadata of a column of the sample (lines 461-469, 480-488)
SampleColumnMetadata(max_length, is_nullable, is_primary_key) ==
    [ max_length |-> max_length, is_nullable |-> is_nullable, default_value |-> None,
      is_primary_key |-> is_primary_key, is_foreign_key |-> FALSE,
      referenced_table |-> None, referenced_column |-> None ]

\* create_sample_mapping (lines 434-514): a literal, but for the two dates
create_sample_mapping(now) ==
    [ client_info |->
          [ client_key |-> "sample_client", client_name |-> "Sample Client",
            database |-> "SampleDB", generation_date |-> now,
            total_tables |-> 2, total_columns |-> 8 ],
      tables |->
          [ table_name \in {"dbo.Customers"} |->
              [ technical_name |-> "dbo.Customers",
                natural_name |-> "Customers",
                description |-> "Data from the Customers table",
                search_terms |-> <<"customers", "customer", "client", "user">>,
                synonyms |-> <<"client", "user", "person">>,
                columns |->
                    [ column_name \in {"CustomerID", "CustomerName"} |->
                        IF column_name = "CustomerID"
                        THEN [ technical_name |-> "CustomerID",
                               natural_name |-> "Customer ID",
                               description |-> "Customer ID from Customers (number)",
                               data_type |-> "int",
                               search_terms |-> <<"customer id", "id", "identifier", "key">>,
                               synonyms |-> <<"identifier", "key", "number">>,
                               category |-> "identifier",
                               examples |-> << "find by customer id", "get customer id",
                                               "show customer id" >>,
                               metadata |-> SampleColumnMetadata(None, FALSE, TRUE) ]
                        ELSE [ technical_name |-> "CustomerName",
                               natural_name |-> "Customer Name",
                               description |-> "Customer Name from Customers (text)",
                               data_type |-> "varchar",
                               search_terms |-> <<"customer name", "name", "title">>,
                               synonyms |-> <<"title", "label", "description">>,
                               category |-> "name",
                               examples |-> << "find by customer name",
                                               "search customer name",
                                               "show customer name" >>,
                               metadata |-> SampleColumnMetadata(Some(100), FALSE, FALSE) ] ],
                primary_keys |-> <<"CustomerID">>,
                foreign_keys |-> <<>>,
                row_count |-> Some(1000),
                metadata |-> [ schema |-> "dbo", table_name |-> "Customers",
                               column_count |-> 2, has_primary_key |-> TRUE,
                               has_foreign_keys |-> FALSE ] ] ],
      search_index |->
          [ term \in {"customer", "name", "id"} |->
              IF term = "customer"
              THEN << "dbo.Customers", "dbo.Customers.CustomerID",
                      "dbo.Customers.CustomerName" >>
              ELSE IF term = "name" THEN <<"dbo.Customers.CustomerName">>
              ELSE <<"dbo.Customers.CustomerID">> ],
      metadata |-> [ version |-> "1.0",
                     generator |-> "QueryMancer Mapping Generator",
                     schema_extraction_date |-> now ] ]

ObjectInit ==
    /\ hash_seed \in Seeds
    /\ \E t \in 1..Len(TablePool) :
           /\ source_info = Some(SourceObject(TablePool[t]))
           /\ heap = ListsOf(TablePool[t])
    /\ built_mapping = None
    /\ mapping_at_return = None
    /\ source_changes = 0
    /\ sample = None
    /\ NoText
    /\ NoColumn
    /\ NoMapping
    /\ NoBatch
    /\ NoExtract
    /\ NoClient

\* table_mapping = generator.generate_table_mapping(table_info)
GenerateTableMapping ==
    /\ built_mapping = None
    /\ \E table_mapping \in {TableMappingObject(source_info[1], heap, hash_seed)} :
           /\ built_mapping' = Some(table_mapping)
           /\ mapping_at_return' = Some(ReadMapping(table_mapping, heap))
    /\ UNCHANGED <<hash_seed, clientVars, source_info, sample, heap, source_changes, textVars, columnVars,
                   mappingVars, callVars, batchVars, extractorVars>>

\* table_info.primary_keys.append(key)
AppendPrimaryKey ==
    /\ source_changes < MaxChanges
    /\ \E c \in 1..Len(heap.columns) :
           heap' = [heap EXCEPT !.primary_keys = Append(@, heap.columns[c].name)]
    /\ source_changes' = source_changes + 1
    /\ UNCHANGED <<hash_seed, clientVars, source_info, sample, built_mapping, mapping_at_return, textVars,
                   columnVars, mappingVars, callVars, batchVars, extractorVars>>

\* table_info.foreign_keys.append({...})
AppendForeignKey ==
    /\ source_changes < MaxChanges
    /\ \E c \in 1..Len(heap.columns) :
           heap' = [heap EXCEPT !.foreign_keys =
                       Append(@, [ column |-> heap.columns[c].name,
                                   referenced_table |-> "dbo.Customers",
                                   referenced_column |-> "CustomerID" ])]
    /\ source_changes' = source_changes + 1
    /\ UNCHANGED <<hash_seed, clientVars, source_info, sample, built_mapping, mapping_at_return, textVars,
                   columnVars, mappingVars, callVars, batchVars, extractorVars>>

\* table_info.columns[c].data_type = data_type
EditColumn ==
    /\ source_changes < MaxChanges
    /\ \E c \in 1..Len(heap.columns), data_type \in {"int", "text"} :
           /\ heap.columns[c].data_type # data_type
           /\ heap' = [heap EXCEPT !.columns[c].data_type = data_type]
    /\ source_changes' = source_changes + 1
    /\ UNCHANGED <<hash_seed, clientVars, source_info, sample, built_mapping, mapping_at_return, textVars,
                   columnVars, mappingVars, callVars, batchVars, extractorVars>>

\* sample_mapping = create_sample_mapping()
CreateSampleMapping ==
    /\ sample = None
    /\ sample' = Some(create_sample_mapping(clock))
    /\ UNCHANGED <<hash_seed, clientVars, source_info, heap, built_mapping, mapping_at_return,
                   source_changes, textVars, columnVars, mappingVars, callVars, batchVars,
                   extractorVars>>

ObjectNext ==
    \/ CreateSampleMapping
    \/ GenerateTableMapping
    \/ AppendPrimaryKey
    \/ AppendForeignKey
    \/ EditColumn

SpecObject == ObjectInit /\ [][ObjectNext]_vars

\* C26: a table mapping, once returned, reads the same whatever the caller
\* then does to the TableInfo it was built from (appending to its
\* primary_keys or foreign_keys, editing a ColumnInfo).
C26_MappingOwnsItsData ==
    built_mapping # None =>
        ReadMapping(built_mapping[1], heap) = mapping_at_return[1]

\* everything of the mapping but the two lists stays as returned
OnlyKeyListsShared ==
    built_mapping # None =>
        \A now \in {ReadMapping(built_mapping[1], heap)} :
            \A field \in DOMAIN now \ {"primary_keys", "foreign_keys"} :
                now[field] = mapping_at_return[1][field]

\* dbo.Products, returned with primary_keys = ["ProductID"], reads
\* ["ProductID", "Status"] after the caller's append, and its metadata still
\* describes the list as returned
C26_Witness ==
    /\ built_mapping # None
    /\ source_info[1].name = "Products"
    /\ mapping_at_return[1].primary_keys = <<"ProductID">>
    /\ ReadMapping(built_mapping[1], heap).primary_keys = <<"ProductID", "Status">>
    /\ ReadMapping(built_mapping[1], heap).foreign_keys = mapping_at_return[1].foreign_keys

----------------------------------------------------------------------------
(* One call of generate_mapping_for_client, step by step: the extraction   *)
(* of schema_extractor.py lines 390-405 with its connection, then lines    *)
(* 377-387 of mapping_generator.py                                         *)

MaxListed == 2

\* the tables of a database, in the order of the ORDER BY of line 116
ListedNames == <<"dbo.Customers", "dbo.Orders", "sales.Orders">>

\* what the query of get_tables can yield: at most MaxListed of them
TableListings ==
    {AtPositions(ListedNames, picked) :
        picked \in {p \in SUBSET (1..Len(ListedNames)) : Cardinality(p) <= MaxListed}}

OneColumn == <<ColumnRow("OrderID", 1)>>
TwoColumns == <<ColumnRow("OrderID", 1), ColumnRow("customer_id", 0)>>
OneForeignKey == <<ForeignKeyRow("customer_id", "CustomerID")>>

\* what the three queries of get_table_info can do for a table: the rows each
\* yields, whether it ran (it raises otherwise), and what
\* get_table_row_count returns (None when its query raises)
QueryOutcomes ==
    { [rows |-> TwoColumns, fetched |-> FALSE, fk_rows |-> OneForeignKey,
       fk_fetched |-> TRUE, row_count |-> Some(7)],
      [rows |-> <<>>, fetched |-> TRUE, fk_rows |-> <<>>,
       fk_fetched |-> TRUE, row_count |-> Some(0)],
      [rows |-> TwoColumns, fetched |-> TRUE, fk_rows |-> OneForeignKey,
       fk_fetched |-> FALSE, row_count |-> Some(7)],
      [rows |-> TwoColumns, fetched |-> TRUE, fk_rows |-> OneForeignKey,
       fk_fetched |-> TRUE, row_count |-> None],
      [rows |-> TwoColumns, fetched |-> TRUE, fk_rows |-> OneForeignKey,
       fk_fetched |-> TRUE, row_count |-> Some(7)],
      [rows |-> OneColumn, fetched |-> TRUE, fk_rows |-> OneForeignKey,
       fk_fetched |-> FALSE, row_count |-> None] }

\* how save_mapping_to_file can go: the document is written; makedirs or open
\* raises and no file is made; json.dump raises after open has made the file
WriteOutcomes == {"written", "open_failed", "dump_failed"}

\* connect (lines 66-82): pyodbc.connect returns a new connection, which
\* becomes self.connection, or raises (or pyodbc is missing) and False is
\* returned, self.connection as it was
connect(conn, conns, ok, caller) ==
    IF ok
    THEN [ connection |-> Some(Len(conns) + 1),
           connections |-> Append(conns, [by |-> caller, state |-> "open"]),
           result |-> TRUE ]
    ELSE [ connection |-> conn, connections |-> conns, result |-> FALSE ]

\* disconnect with the close of line 87 left out
disconnect_NoClose(conn, conns) ==
    [ connection |-> None, connections |-> conns ]

\* disconnect (lines 84-89)
disconnect(conn, conns) ==
    IF conn # None
    THEN [ connection |-> None,
           connections |-> [conns EXCEPT ![conn[1]].state = "closed"] ]
    ELSE [ connection |-> conn, connections |-> conns ]

\* get_tables (lines 100-131): a connection is made if there is none, and
\* without one [] is returned; [] as well when the query raises
get_tables(conn, conns, reconnect_ok, query_ok, listing) ==
    LET session == IF conn = None THEN connect(conn, conns, reconnect_ok, "get_tables")
                   ELSE [connection |-> conn, connections |-> conns, result |-> TRUE]
    IN  [ connection |-> session.connection, connections |-> session.connections,
          tables |-> IF session.result /\ query_ok THEN listing ELSE <<>> ]

\* the dict schema_info as the TableInfo list generate_database_mapping walks
TablesOf(items) == [i \in 1..Len(items) |-> items[i].info]

\* lines 369-380 of mapping_generator.py: the mapping the call has made when
\* it comes to line 383, {} when it has returned before
MadeMapping(key, extracted, seed, now) ==
    generate_mapping_for_client(key, extracted, TRUE, seed, now).value

\* the save of a made mapping without the test of line 383
FilesOfSave_Unguarded(made, key, write) ==
    IF write # "open_failed" THEN {key \o "_table_mapping.json"} ELSE {}

\* lines 383-384 and 349-350: the file the save of a made mapping creates
FilesOfSave(made, key, write) ==
    IF DOMAIN made # {} /\ write # "open_failed"
    THEN {key \o "_table_mapping.json"} ELSE {}

ClientInit ==
    /\ hash_seed = 0
    /\ job_client \in ClientKeys
    /\ job_pc = "idle"
    /\ connection = None
    /\ connections = <<>>
    /\ job_tables = <<>>
    /\ job_queries = <<>>
    /\ job_schema = <<>>
    /\ job_error = ""
    /\ job_mapping = <<>>
    /\ files = {}
    /\ job_result = None
    /\ NoText
    /\ NoColumn
    /\ NoMapping
    /\ NoBatch
    /\ NoExtract
    /\ NoObject

\* generate_mapping_for_client calls extract_schema_for_client, which makes
\* the SchemaExtractor and enters the with statement (schema_extractor.py
\* lines 400-401): __init__ raises ValueError for a client without
\* configuration (line 61), which line 403 catches; __enter__ calls connect
\* and ignores its result (line 382)
EnterExtractor ==
    /\ job_pc = "idle"
    /\ IF job_client \notin DOMAIN databases
       THEN /\ job_error' = "ValueError"
            /\ job_pc' = "extracted"
            /\ UNCHANGED <<connection, connections>>
       ELSE /\ \E ok \in BOOLEAN :
                 \E session \in {connect(connection, connections, ok, "__enter__")} :
                     /\ connection' = session.connection
                     /\ connections' = session.connections
            /\ job_pc' = "entered"
            /\ UNCHANGED job_error
    /\ UNCHANGED <<hash_seed, job_client, job_tables, job_queries, job_schema, job_mapping,
                   files, job_result, textVars, columnVars, mappingVars, callVars,
                   batchVars, extractorVars, objectVars>>

\* extract_full_schema up to its loop (lines 362-365)
GetTables ==
    /\ job_pc = "entered"
    /\ \E reconnect_ok \in BOOLEAN, query_ok \in BOOLEAN, listing \in TableListings :
          \E got \in {get_tables(connection, connections, reconnect_ok, query_ok, listing)} :
              /\ connection' = got.connection
              /\ connections' = got.connections
              /\ job_tables' = got.tables
    /\ job_pc' = "listed"
    /\ UNCHANGED <<hash_seed, job_client, job_queries, job_schema, job_error, job_mapping,
                   files, job_result, textVars, columnVars, mappingVars, callVars,
                   batchVars, extractorVars, objectVars>>

\* one pass of the loop of lines 368-376, for the next table of the list
ExtractTable ==
    /\ job_pc = "listed"
    /\ Len(job_queries) < Len(job_tables)
    /\ \E q \in QueryOutcomes :
          \E table_name \in {job_tables[Len(job_queries) + 1]} :
          \E table_info \in {get_table_info(table_name, q.rows, q.fetched, q.fk_rows,
                                            q.fk_fetched, q.row_count)} :
              /\ job_queries' = Append(job_queries, q)
              /\ job_schema' =
                     IF table_info # None
                     THEN Append(job_schema, [key |-> table_name, info |-> table_info[1]])
                     ELSE job_schema
    /\ UNCHANGED <<hash_seed, job_client, job_pc, connection, connections, job_tables,
                   job_error, job_mapping, files, job_result, textVars, columnVars,
                   mappingVars, callVars, batchVars, extractorVars, objectVars>>

\* the loop is over: extract_full_schema returns schema_info (line 378), the
\* with statement is left through __exit__ (lines 385-387), and
\* extract_schema_for_client returns (line 402)
ExitExtractor ==
    /\ job_pc = "listed"
    /\ Len(job_queries) = Len(job_tables)
    /\ \E session \in {disconnect(connection, connections)} :
          /\ connection' = session.connection
          /\ connections' = session.connections
    /\ job_pc' = "extracted"
    /\ UNCHANGED <<hash_seed, job_client, job_tables, job_queries, job_schema, job_error,
                   job_mapping, files, job_result, textVars, columnVars, mappingVars,
                   callVars, batchVars, extractorVars, objectVars>>

\* an exception leaves the body of the with statement: __exit__ runs all the
\* same (lines 385-387), line 403 catches the exception and {} is returned
ExtractRaises ==
    /\ job_pc \in {"entered", "listed"}
    /\ \E session \in {disconnect(connection, connections)} :
          /\ connection' = session.connection
          /\ connections' = session.connections
    /\ job_schema' = <<>>
    /\ job_error' = "Exception"
    /\ job_pc' = "extracted"
    /\ UNCHANGED <<hash_seed, job_client, job_tables, job_queries, job_mapping, files,
                   job_result, textVars, columnVars, mappingVars, callVars, batchVars,
                   extractorVars, objectVars>>

\* the rest of generate_mapping_for_client (mapping_generator.py lines
\* 373-392)
GenerateAndSave ==
    /\ job_pc = "extracted"
    /\ \E made \in {MadeMapping(job_client, TablesOf(job_schema), hash_seed, clock)} :
          \E write \in WriteOutcomes :
              /\ job_mapping' = made
              /\ files' = files \cup FilesOfSave(made, job_client, write)
              /\ job_result' =
                     Except(SavedAndReturned(
                                made, save_mapping_to_file(job_client, write = "written")))
    /\ job_pc' = "returned"
    /\ UNCHANGED <<hash_seed, job_client, connection, connections, job_tables, job_queries,
                   job_schema, job_error, textVars, columnVars, mappingVars, callVars,
                   batchVars, extractorVars, objectVars>>

ClientNext ==
    \/ EnterExtractor
    \/ GetTables
    \/ ExtractTable
    \/ ExitExtractor
    \/ ExtractRaises
    \/ GenerateAndSave

SpecClient == ClientInit /\ [][ClientNext]_vars

----------------------------------------------------------------------------
(* Properties of one call of generate_mapping_for_client                   *)

\* C27: generate_mapping_for_client never raises; for a client without
\* configuration, for a client no connection could be made for, and for a
\* client whose extraction gave no table, it returns {} and creates no file;
\* and it creates a file only when it has made a mapping that is not empty.
C27_NoFileWithoutMapping ==
    job_pc = "returned" =>
        /\ ~job_result.raised
        /\ (\/ job_client \notin DOMAIN databases
            \/ connections = <<>>
            \/ job_schema = <<>>)
               => (DOMAIN job_result.value = {} /\ files = {})
        /\ files # {} => DOMAIN job_mapping # {}

\* client_a, neither connect of __enter__ nor that of get_tables succeeding
C27_Witness ==
    /\ job_pc = "returned"
    /\ job_client = "client_a"
    /\ connections = <<>>
    /\ job_error = ""
    /\ DOMAIN job_result.value = {}
    /\ files = {}

\* C28: while extract_full_schema runs and after it has returned, every
\* table the loop has handled whose columns query raised or gave no row has
\* no entry in schema_info, and every other table it has handled has exactly
\* one, under its schema.table name, with the columns the query gave; when
\* its foreign-key query raised the entry has no foreign keys, and when its
\* row-count query raised it has no row count.  schema_info has no other key.
C28_FailuresIsolatedPerTable ==
    job_error = "" =>
        /\ \A i \in 1..Len(job_queries) :
               \A q \in {job_queries[i]} :
               \A hits \in {{k \in 1..Len(job_schema) : job_schema[k].key = job_tables[i]}} :
                   IF ~q.fetched \/ q.rows = <<>>
                   THEN hits = {}
                   ELSE /\ Cardinality(hits) = 1
                        /\ \A k \in hits : \A info \in {job_schema[k].info} :
                               /\ info.schema \o "." \o info.name = job_tables[i]
                               /\ [c \in 1..Len(info.columns) |-> info.columns[c].name]
                                      = [c \in 1..Len(q.rows) |-> q.rows[c].COLUMN_NAME]
                               /\ ~q.fk_fetched =>
                                      /\ info.foreign_keys = <<>>
                                      /\ \A c \in 1..Len(info.columns) :
                                             ~info.columns[c].is_foreign_key
                               /\ q.fk_fetched => Len(info.foreign_keys) = Len(q.fk_rows)
                               /\ info.row_count = q.row_count
        /\ \A k \in 1..Len(job_schema) :
               \E i \in 1..Len(job_queries) : job_schema[k].key = job_tables[i]

\* dbo.Customers, whose columns query raised, is left out; dbo.Orders, whose
\* foreign-key and row-count queries raised, is there with two columns
C28_Witness ==
    /\ job_pc = "extracted"
    /\ job_error = ""
    /\ job_tables = <<"dbo.Customers", "dbo.Orders">>
    /\ Len(job_queries) = 2
    /\ ~job_queries[1].fetched
    /\ ~job_queries[2].fk_fetched
    /\ Len(job_schema) = 1
    /\ job_schema[1].key = "dbo.Orders"
    /\ job_schema[1].info.foreign_keys = <<>>
    /\ job_schema[1].info.row_count = None

\* C29: once extract_schema_for_client has returned, self.connection is None
\* and every connection that was opened during it is closed.
C29_ConnectionsClosedOnReturn ==
    job_pc \in {"extracted", "returned"} =>
        /\ connection = None
        /\ \A i \in 1..Len(connections) : connections[i].state = "closed"

\* the connect of __enter__ failed, that of get_tables succeeded, a table was
\* extracted over the connection, and the connection is closed
C29_Witness ==
    /\ job_pc = "extracted"
    /\ connections = <<[by |-> "get_tables", state |-> "closed"]>>
    /\ job_schema # <<>>

----------------------------------------------------------------------------
(* Properties of the sample mapping (mapping_generator.py lines 428-514)   *)

\* the paths a mapping has an entry for: its tables and their columns
PathsPresent(m) ==
    DOMAIN m.tables
    \cup UNION {{table_name \o "." \o column_name :
                    column_name \in DOMAIN m.tables[table_name].columns} :
                table_name \in DOMAIN m.tables}

\* every path of the search index of the sample names a table or a column
\* the sample has
SampleIndexPathsPresent ==
    sample # None =>
        \A term \in DOMAIN sample[1].search_index :
            Elems(sample[1].search_index[term]) \subseteq PathsPresent(sample[1])

\* C30: the sample mapping is consistent in itself: client_info.total_tables
\* is the number of its tables, client_info.total_columns the number of the
\* column entries of these tables, and every path of its search index names
\* a table or a column it has.
C30_SampleConsistent ==
    sample # None =>
        /\ sample[1].client_info.total_tables = Cardinality(DOMAIN sample[1].tables)
        /\ sample[1].client_info.total_columns =
               SumColumns(sample[1].tables, DOMAIN sample[1].tables)
        /\ SampleIndexPathsPresent

\* the sample as returned: it states 2 tables and 8 columns and has the one
\* table dbo.Customers with 2 columns
C30_Witness ==
    /\ sample # None
    /\ sample[1].client_info.total_tables = 2
    /\ sample[1].client_info.total_columns = 8
    /\ DOMAIN sample[1].tables = {"dbo.Customers"}
    /\ DOMAIN sample[1].tables["dbo.Customers"].columns = {"CustomerID", "CustomerName"}

====
